---- MODULE Spec2Model ----
(***************************************************************************)
(* Model of the ADGM corporate agent: the checklist reconciler             *)
(* (app/checklist.py), the document type classifier (app/parser.py), the   *)
(* compliance rule engine (app/rules.py, app/rag.py), the annotation of a  *)
(* document (app/comments.py) and the run over a batch of uploaded files   *)
(* (app/ui.py).                                                            *)
(***************************************************************************)
EXTENDS Integers, Sequences, FiniteSets, TLC

VARIABLES
    pc,            \* position of the call being modelled
    found_types,   \* verify_checklist: the found_types argument (a list)
    process,       \* verify_checklist: the process argument
    issues,        \* verify_checklist: the issues argument (a list of issue dicts)
    hash_seed,     \* the interpreter's string hash seed (fixes set iteration order)
    missing,       \* verify_checklist: first result
    problematic,   \* verify_checklist: second result
    doc,           \* the .docx file handed to detect_doc_type
    api_key,       \* whether GEMINI_API_KEY is configured
    type_scores,   \* detect_doc_type: the scored types, once the text is scored
    detected,      \* detect_doc_type: the returned type
    n_scored,      \* detect_doc_type: number of patterns counted with re.findall
    n_clients,     \* detect_doc_type: number of GeminiClient() constructions tried
    n_asks,        \* detect_doc_type: number of gemini.ask calls
    response,      \* detect_doc_type: what gemini.ask returned
    raised,        \* detect_doc_type: whether an exception left the function
    doc_type,      \* red_flags: the doc_type argument
    rag_env,       \* the retrieval database during the run of red_flags
    llm_env,       \* the generative service during the run of red_flags
    collected,     \* red_flags: the local list issues
    contexts,      \* red_flags: the contexts handed to the suggestion composer
    n_queries,     \* red_flags: number of queries made to the retrieval database
    caught,        \* red_flags: the exception its handler caught ("none": none)
    result,        \* red_flags: the returned list
    prompt,        \* get_rag_powered_suggestion: the prompt argument
    context,       \* get_rag_powered_suggestion: the context argument
    suggestion,    \* get_rag_powered_suggestion: the returned string
    previous,      \* red_flags: the list an earlier call on the same arguments returned
    runs_left,     \* red_flags: number of calls on the same arguments still to make
    uploaded,      \* main: the uploaded files, in upload order
    file_index,    \* main: position in uploaded of the file the loop handles next
    filepaths,     \* main: the list filepaths
    doc_types,     \* main: the list doc_types
    all_issues,    \* main: the list all_issues
    summaries,     \* main: the dict summaries, as a list of entries
    n_errors,      \* main: number of files the handler of the loop reported
    detected_process,  \* main: the detected process
    report,        \* main: structured_output
    shown,         \* main: the entries of the section of the document summaries
    reviewed,      \* main: the entries of the section of the reviewed documents
    summary_text,  \* insert_comments: the summary_text argument
    annotated      \* insert_comments: the document it saved

checklist_vars == <<found_types, process, issues, hash_seed, missing, problematic>>

parser_vars == <<doc, api_key, type_scores, detected, n_scored, n_clients, n_asks, response, raised>>

rules_vars == <<doc_type, rag_env, llm_env, collected, contexts, n_queries, caught, result>>

composer_vars == <<prompt, context, suggestion>>

rerun_vars == <<previous, runs_left>>

batch_vars == <<uploaded, file_index, filepaths, doc_types, all_issues, summaries, n_errors,
                detected_process, report, shown, reviewed>>

comments_vars == <<summary_text, annotated>>

vars == <<pc, checklist_vars, parser_vars, rules_vars, composer_vars, rerun_vars, batch_vars, comments_vars>>

(***************************************************************************)
(* Bounds of the model.                                                    *)
(***************************************************************************)
MaxFound == 2
MaxIssues == 2
MaxHashSeed == 2
MaxParas == 2
MaxRows == 1
MaxParts == 2
MaxInstances == 1
MaxTexts == 2
MaxPassages == 1
MaxFiles == 2

(***************************************************************************)
(* app/parser.py: the recognition rules.  A text is a sequence of words (the  *)
(* runs between whitespace); a pattern is read word by word: lb and rb say    *)
(* whether it opens and closes with \b, alts lists the word sequences it      *)
(* matches, in the order the regex engine tries them ("\\d+" is a digit run). *)
(***************************************************************************)
TYPE_RULES == <<
    [ name |-> "Articles of Association", patterns |-> <<
        [ lb |-> TRUE, rb |-> TRUE, alts |-> << << "Articles", "of", "Association" >> >> ],
        [ lb |-> TRUE, rb |-> TRUE, alts |-> << << "A", "O", "A" >>, << "A", "OA" >>, << "AO", "A" >>, << "AOA" >> >> ],
        [ lb |-> FALSE, rb |-> FALSE, alts |-> << << "Article", "\\d+" >> >> ],
        [ lb |-> FALSE, rb |-> FALSE, alts |-> << << "company", "constitution" >> >> ],
        [ lb |-> FALSE, rb |-> FALSE, alts |-> << << "articles", "and", "regulations" >> >> ],
        [ lb |-> FALSE, rb |-> FALSE, alts |-> << << "corporate", "articles" >> >> ] >> ],
    [ name |-> "Memorandum of Association", patterns |-> <<
        [ lb |-> TRUE, rb |-> TRUE, alts |-> << << "Memorandum", "of", "Association" >> >> ],
        [ lb |-> TRUE, rb |-> TRUE, alts |-> << << "M", "O", "A" >>, << "M", "OA" >>, << "MO", "A" >>, << "MOA" >> >> ],
        [ lb |-> FALSE, rb |-> FALSE, alts |-> << << "objects", "of", "the", "company" >> >> ],
        [ lb |-> FALSE, rb |-> FALSE, alts |-> << << "company", "objects" >> >> ],
        [ lb |-> FALSE, rb |-> FALSE, alts |-> << << "memorandum", "and", "articles" >> >> ] >> ],
    [ name |-> "Board Resolution", patterns |-> <<
        [ lb |-> TRUE, rb |-> TRUE, alts |-> << << "Board", "Resolution" >> >> ],
        [ lb |-> TRUE, rb |-> TRUE, alts |-> << << "Resolution", "of", "the", "Board" >>, << "Resolution", "of", "Board" >> >> ],
        [ lb |-> FALSE, rb |-> FALSE, alts |-> << << "Directors", "Resolution" >>, << "Director", "Resolution" >> >> ],
        [ lb |-> FALSE, rb |-> FALSE, alts |-> << << "Board", "of", "Directors", "Resolution" >> >> ],
        [ lb |-> FALSE, rb |-> FALSE, alts |-> << << "resolved", "that" >> >> ],
        [ lb |-> FALSE, rb |-> FALSE, alts |-> << << "IT", "IS", "RESOLVED" >> >> ],
        [ lb |-> FALSE, rb |-> FALSE, alts |-> << << "board", "meeting" >> >> ],
        [ lb |-> FALSE, rb |-> FALSE, alts |-> << << "directors", "meeting" >>, << "director", "meeting" >> >> ] >> ],
    [ name |-> "Shareholder Resolution", patterns |-> <<
        [ lb |-> TRUE, rb |-> TRUE, alts |-> << << "Shareholder", "Resolution" >> >> ],
        [ lb |-> TRUE, rb |-> TRUE, alts |-> << << "Member", "Resolution" >> >> ],
        [ lb |-> FALSE, rb |-> FALSE, alts |-> << << "Resolution", "of", "the", "Shareholders" >>, << "Resolution", "of", "the", "Shareholder" >>, << "Resolution", "of", "Shareholders" >>, << "Resolution", "of", "Shareholder" >> >> ],
        [ lb |-> FALSE, rb |-> FALSE, alts |-> << << "Resolution", "of", "the", "Members" >>, << "Resolution", "of", "the", "Member" >>, << "Resolution", "of", "Members" >>, << "Resolution", "of", "Member" >> >> ],
        [ lb |-> FALSE, rb |-> FALSE, alts |-> << << "shareholders", "meeting" >>, << "shareholder", "meeting" >> >> ],
        [ lb |-> FALSE, rb |-> FALSE, alts |-> << << "members", "meeting" >>, << "member", "meeting" >> >> ],
        [ lb |-> FALSE, rb |-> FALSE, alts |-> << << "general", "meeting" >> >> ] >> ],
    [ name |-> "Employment Contract", patterns |-> <<
        [ lb |-> TRUE, rb |-> TRUE, alts |-> << << "Employment", "Contract" >> >> ],
        [ lb |-> TRUE, rb |-> TRUE, alts |-> << << "Contract", "of", "Employment" >> >> ],
        [ lb |-> TRUE, rb |-> TRUE, alts |-> << << "Employment", "Agreement" >> >> ],
        [ lb |-> FALSE, rb |-> FALSE, alts |-> << << "terms", "and", "conditions", "of", "employment" >> >> ],
        [ lb |-> FALSE, rb |-> FALSE, alts |-> << << "employee", "handbook" >> >> ],
        [ lb |-> FALSE, rb |-> FALSE, alts |-> << << "job", "description" >> >> ],
        [ lb |-> FALSE, rb |-> FALSE, alts |-> << << "salary", "and", "benefits" >> >> ],
        [ lb |-> FALSE, rb |-> FALSE, alts |-> << << "working", "hours" >> >> ],
        [ lb |-> FALSE, rb |-> FALSE, alts |-> << << "probation", "period" >> >> ],
        [ lb |-> FALSE, rb |-> FALSE, alts |-> << << "termination", "clause" >> >> ] >> ],
    [ name |-> "UBO Declaration", patterns |-> <<
        [ lb |-> TRUE, rb |-> TRUE, alts |-> << << "UBO", "Declaration" >> >> ],
        [ lb |-> TRUE, rb |-> TRUE, alts |-> << << "Ultimate", "Beneficial", "Owner" >> >> ],
        [ lb |-> FALSE, rb |-> FALSE, alts |-> << << "beneficial", "ownership" >> >> ],
        [ lb |-> FALSE, rb |-> FALSE, alts |-> << << "UBO", "information" >> >> ],
        [ lb |-> FALSE, rb |-> FALSE, alts |-> << << "ownership", "structure" >> >> ],
        [ lb |-> FALSE, rb |-> FALSE, alts |-> << << "controlling", "interest" >> >> ] >> ],
    [ name |-> "Register of Members and Directors", patterns |-> <<
        [ lb |-> TRUE, rb |-> TRUE, alts |-> << << "Register", "of", "Members" >> >> ],
        [ lb |-> TRUE, rb |-> TRUE, alts |-> << << "Register", "of", "Directors" >> >> ],
        [ lb |-> FALSE, rb |-> FALSE, alts |-> << << "Members", "Register" >>, << "Member", "Register" >> >> ],
        [ lb |-> FALSE, rb |-> FALSE, alts |-> << << "Directors", "Register" >>, << "Director", "Register" >> >> ],
        [ lb |-> FALSE, rb |-> FALSE, alts |-> << << "shareholding", "details" >> >> ],
        [ lb |-> FALSE, rb |-> FALSE, alts |-> << << "director", "details" >> >> ],
        [ lb |-> FALSE, rb |-> FALSE, alts |-> << << "member", "information" >> >> ] >> ],
    [ name |-> "Incorporation Application Form", patterns |-> <<
        [ lb |-> TRUE, rb |-> TRUE, alts |-> << << "Incorporation", "Application" >> >> ],
        [ lb |-> FALSE, rb |-> FALSE, alts |-> << << "Application", "for", "Incorporation" >> >> ],
        [ lb |-> FALSE, rb |-> FALSE, alts |-> << << "company", "registration" >> >> ],
        [ lb |-> FALSE, rb |-> FALSE, alts |-> << << "incorporation", "form" >> >> ],
        [ lb |-> FALSE, rb |-> FALSE, alts |-> << << "registration", "application" >> >> ] >> ],
    [ name |-> "Change of Registered Address Notice", patterns |-> <<
        [ lb |-> FALSE, rb |-> FALSE, alts |-> << << "Change", "of", "Registered", "Address" >>, << "Change", "of", "Address" >> >> ],
        [ lb |-> FALSE, rb |-> FALSE, alts |-> << << "Address", "Change", "Notice" >> >> ],
        [ lb |-> FALSE, rb |-> FALSE, alts |-> << << "registered", "office", "change" >> >> ],
        [ lb |-> FALSE, rb |-> FALSE, alts |-> << << "change", "of", "registered", "office" >> >> ] >> ],
    [ name |-> "Licensing Regulatory Filing", patterns |-> <<
        [ lb |-> FALSE, rb |-> FALSE, alts |-> << << "Licensing", "Regulatory", "Filing" >>, << "Licensing", "Filing" >> >> ],
        [ lb |-> FALSE, rb |-> FALSE, alts |-> << << "License", "Application" >> >> ],
        [ lb |-> FALSE, rb |-> FALSE, alts |-> << << "regulatory", "filing" >> >> ],
        [ lb |-> FALSE, rb |-> FALSE, alts |-> << << "license", "renewal" >> >> ],
        [ lb |-> FALSE, rb |-> FALSE, alts |-> << << "permit", "application" >> >> ] >> ],
    [ name |-> "Commercial Agreement", patterns |-> <<
        [ lb |-> TRUE, rb |-> TRUE, alts |-> << << "Commercial", "Agreement" >> >> ],
        [ lb |-> TRUE, rb |-> TRUE, alts |-> << << "Service", "Agreement" >> >> ],
        [ lb |-> FALSE, rb |-> FALSE, alts |-> << << "business", "agreement" >> >> ],
        [ lb |-> FALSE, rb |-> FALSE, alts |-> << << "commercial", "contract" >> >> ],
        [ lb |-> FALSE, rb |-> FALSE, alts |-> << << "service", "contract" >> >> ],
        [ lb |-> FALSE, rb |-> FALSE, alts |-> << << "supply", "agreement" >> >> ] >> ],
    [ name |-> "Compliance Risk Policy", patterns |-> <<
        [ lb |-> TRUE, rb |-> TRUE, alts |-> << << "Compliance", "Policy" >> >> ],
        [ lb |-> TRUE, rb |-> TRUE, alts |-> << << "Risk", "Policy" >> >> ],
        [ lb |-> FALSE, rb |-> FALSE, alts |-> << << "compliance", "procedures" >> >> ],
        [ lb |-> FALSE, rb |-> FALSE, alts |-> << << "risk", "management" >> >> ],
        [ lb |-> FALSE, rb |-> FALSE, alts |-> << << "internal", "controls" >> >> ] >> ],
    [ name |-> "Renewal Application Form", patterns |-> <<
        [ lb |-> FALSE, rb |-> FALSE, alts |-> << << "Renewal", "Application" >> >> ],
        [ lb |-> FALSE, rb |-> FALSE, alts |-> << << "License", "Renewal" >> >> ],
        [ lb |-> FALSE, rb |-> FALSE, alts |-> << << "permit", "renewal" >> >> ],
        [ lb |-> FALSE, rb |-> FALSE, alts |-> << << "registration", "renewal" >> >> ] >> ],
    [ name |-> "Compliance Declaration", patterns |-> <<
        [ lb |-> FALSE, rb |-> FALSE, alts |-> << << "Compliance", "Declaration" >> >> ],
        [ lb |-> FALSE, rb |-> FALSE, alts |-> << << "regulatory", "compliance" >> >> ],
        [ lb |-> FALSE, rb |-> FALSE, alts |-> << << "compliance", "statement" >> >> ],
        [ lb |-> FALSE, rb |-> FALSE, alts |-> << << "declaration", "of", "compliance" >> >> ] >> ] >>

\* The words of each type name, in the order of TYPE_RULES.
NameWords == <<
    << "Articles", "of", "Association" >>,
    << "Memorandum", "of", "Association" >>,
    << "Board", "Resolution" >>,
    << "Shareholder", "Resolution" >>,
    << "Employment", "Contract" >>,
    << "UBO", "Declaration" >>,
    << "Register", "of", "Members", "and", "Directors" >>,
    << "Incorporation", "Application", "Form" >>,
    << "Change", "of", "Registered", "Address", "Notice" >>,
    << "Licensing", "Regulatory", "Filing" >>,
    << "Commercial", "Agreement" >>,
    << "Compliance", "Risk", "Policy" >>,
    << "Renewal", "Application", "Form" >>,
    << "Compliance", "Declaration" >> >>

\* str.lower() and the case folding of re.I, on the words of the model:
\* the words with an upper-case letter.
LowerOf ==
    ("A" :> "a")
    @@ ("ADGM" :> "adgm")
    @@ ("AO" :> "ao")
    @@ ("AOA" :> "aoa")
    @@ ("Address" :> "address")
    @@ ("Agreement" :> "agreement")
    @@ ("Application" :> "application")
    @@ ("Article" :> "article")
    @@ ("Articles" :> "articles")
    @@ ("Association" :> "association")
    @@ ("Beneficial" :> "beneficial")
    @@ ("Board" :> "board")
    @@ ("Change" :> "change")
    @@ ("Commercial" :> "commercial")
    @@ ("Compliance" :> "compliance")
    @@ ("Contract" :> "contract")
    @@ ("Court" :> "court")
    @@ ("Courts" :> "courts")
    @@ ("DOB" :> "dob")
    @@ ("Declaration" :> "declaration")
    @@ ("Director" :> "director")
    @@ ("Directors" :> "directors")
    @@ ("Dubai" :> "dubai")
    @@ ("Employment" :> "employment")
    @@ ("Federal" :> "federal")
    @@ ("Filing" :> "filing")
    @@ ("Form" :> "form")
    @@ ("ID" :> "id")
    @@ ("IS" :> "is")
    @@ ("IT" :> "it")
    @@ ("Incorporation" :> "incorporation")
    @@ ("Law" :> "law")
    @@ ("License" :> "license")
    @@ ("Licensing" :> "licensing")
    @@ ("M" :> "m")
    @@ ("MO" :> "mo")
    @@ ("MOA" :> "moa")
    @@ ("Member" :> "member")
    @@ ("Members" :> "members")
    @@ ("Memorandum" :> "memorandum")
    @@ ("No" :> "no")
    @@ ("Notice" :> "notice")
    @@ ("O" :> "o")
    @@ ("OA" :> "oa")
    @@ ("Other" :> "other")
    @@ ("Owner" :> "owner")
    @@ ("Policy" :> "policy")
    @@ ("RESOLVED" :> "resolved")
    @@ ("Register" :> "register")
    @@ ("Registered" :> "registered")
    @@ ("Regulatory" :> "regulatory")
    @@ ("Renewal" :> "renewal")
    @@ ("Resolution" :> "resolution")
    @@ ("Resolutions" :> "resolutions")
    @@ ("Risk" :> "risk")
    @@ ("Service" :> "service")
    @@ ("Shareholder" :> "shareholder")
    @@ ("Shareholders" :> "shareholders")
    @@ ("Signed" :> "signed")
    @@ ("UAE" :> "uae")
    @@ ("UBO" :> "ubo")
    @@ ("Ultimate" :> "ultimate")
    @@ ("[No" :> "[no")

CasedWords == DOMAIN LowerOf

Lower(w) == IF w \in CasedWords THEN LowerOf[w] ELSE w

\* The pairs << word, pattern word >> where the (lower-case) word properly starts with the pattern word.
PrefixPairs == {
    << "address", "a" >>, << "adgm", "a" >>, << "agreement", "a" >>,
    << "and", "a" >>, << "annual", "a" >>, << "ao", "a" >>,
    << "aoa", "a" >>, << "aoa", "ao" >>, << "application", "a" >>,
    << "article", "a" >>, << "articles", "a" >>, << "articles", "article" >>,
    << "association", "a" >>, << "available]", "a" >>, << "confidentiality", "confidential" >>,
    << "contracting", "contract" >>, << "courts", "court" >>, << "date:", "date" >>,
    << "date:___", "date" >>, << "date:___", "date:" >>, << "date___", "date" >>,
    << "directors", "director" >>, << "form", "for" >>, << "management", "m" >>,
    << "meeting", "m" >>, << "member", "m" >>, << "members", "m" >>,
    << "members", "member" >>, << "memorandum", "m" >>, << "mo", "m" >>,
    << "moa", "m" >>, << "moa", "mo" >>, << "non-disclosure", "non" >>,
    << "nondisclosure", "non" >>, << "oa", "o" >>, << "objects", "o" >>,
    << "of", "o" >>, << "office", "o" >>, << "office", "of" >>,
    << "on", "o" >>, << "onshore", "o" >>, << "onshore", "on" >>,
    << "other", "o" >>, << "owner", "o" >>, << "ownership", "o" >>,
    << "ownership", "owner" >>, << "registered", "register" >>, << "resolutions", "resolution" >>,
    << "shareholders", "shareholder" >>, << "witnessed", "witness" >>, << "working", "work" >> }

\* The pairs where the word properly ends with the pattern word.
SuffixPairs == {
    << "[no", "o" >>, << "adgm", "m" >>, << "ao", "o" >>,
    << "aoa", "a" >>, << "aoa", "oa" >>, << "application", "on" >>,
    << "association", "on" >>, << "compensation", "on" >>, << "constitution", "on" >>,
    << "date:___", "___" >>, << "date___", "___" >>, << "declaration", "on" >>,
    << "description", "on" >>, << "execution", "on" >>, << "form", "m" >>,
    << "incorporation", "on" >>, << "information", "on" >>, << "jurisdiction", "on" >>,
    << "memorandum", "m" >>, << "mo", "o" >>, << "moa", "a" >>,
    << "moa", "oa" >>, << "no", "o" >>, << "non", "on" >>,
    << "non-disclosure", "disclosure" >>, << "nondisclosure", "disclosure" >>, << "oa", "a" >>,
    << "permit", "it" >>, << "position", "on" >>, << "probation", "on" >>,
    << "registration", "on" >>, << "remuneration", "on" >>, << "resolution", "on" >>,
    << "suggestion", "on" >>, << "termination", "on" >>, << "ubo", "o" >>,
    << "vacation", "on" >> }

\* The pairs where the word properly contains the pattern word.
InfixPairs == {
    << "[no", "o" >>, << "address", "a" >>, << "adgm", "a" >>,
    << "adgm", "m" >>, << "agreement", "a" >>, << "agreement", "m" >>,
    << "and", "a" >>, << "annual", "a" >>, << "ao", "a" >>,
    << "ao", "o" >>, << "aoa", "a" >>, << "aoa", "ao" >>,
    << "aoa", "o" >>, << "aoa", "oa" >>, << "application", "a" >>,
    << "application", "o" >>, << "application", "on" >>, << "article", "a" >>,
    << "articles", "a" >>, << "articles", "article" >>, << "association", "a" >>,
    << "association", "o" >>, << "association", "on" >>, << "available]", "a" >>,
    << "beneficial", "a" >>, << "benefits", "it" >>, << "beyond", "o" >>,
    << "beyond", "on" >>, << "board", "a" >>, << "board", "o" >>,
    << "board", "oa" >>, << "born", "o" >>, << "change", "a" >>,
    << "citizen", "it" >>, << "clause", "a" >>, << "commencement", "m" >>,
    << "commencement", "o" >>, << "commercial", "a" >>, << "commercial", "m" >>,
    << "commercial", "o" >>, << "company", "a" >>, << "company", "m" >>,
    << "company", "o" >>, << "compensation", "a" >>, << "compensation", "m" >>,
    << "compensation", "o" >>, << "compensation", "on" >>, << "compliance", "a" >>,
    << "compliance", "m" >>, << "compliance", "o" >>, << "conditions", "it" >>,
    << "conditions", "o" >>, << "conditions", "on" >>, << "confidential", "a" >>,
    << "confidential", "id" >>, << "confidential", "o" >>, << "confidential", "on" >>,
    << "confidentiality", "a" >>, << "confidentiality", "confidential" >>, << "confidentiality", "id" >>,
    << "confidentiality", "it" >>, << "confidentiality", "o" >>, << "confidentiality", "on" >>,
    << "constitution", "it" >>, << "constitution", "o" >>, << "constitution", "on" >>,
    << "contract", "a" >>, << "contract", "o" >>, << "contract", "on" >>,
    << "contracting", "a" >>, << "contracting", "contract" >>, << "contracting", "o" >>,
    << "contracting", "on" >>, << "controlling", "o" >>, << "controlling", "on" >>,
    << "controls", "o" >>, << "controls", "on" >>, << "corporate", "a" >>,
    << "corporate", "o" >>, << "court", "o" >>, << "courts", "court" >>,
    << "courts", "o" >>, << "damages", "a" >>, << "damages", "m" >>,
    << "date", "a" >>, << "date:", "a" >>, << "date:", "date" >>,
    << "date:___", "___" >>, << "date:___", "a" >>, << "date:___", "date" >>,
    << "date:___", "date:" >>, << "date___", "___" >>, << "date___", "a" >>,
    << "date___", "date" >>, << "declaration", "a" >>, << "declaration", "o" >>,
    << "declaration", "on" >>, << "description", "o" >>, << "description", "on" >>,
    << "details", "a" >>, << "director", "o" >>, << "directors", "director" >>,
    << "directors", "o" >>, << "disclosure", "is" >>, << "disclosure", "o" >>,
    << "dismiss", "is" >>, << "dismiss", "m" >>, << "dob", "o" >>,
    << "dubai", "a" >>, << "employee", "m" >>, << "employee", "o" >>,
    << "employment", "m" >>, << "employment", "o" >>, << "execution", "o" >>,
    << "execution", "on" >>, << "federal", "a" >>, << "for", "o" >>,
    << "form", "for" >>, << "form", "m" >>, << "form", "o" >>,
    << "general", "a" >>, << "governed", "o" >>, << "governing", "o" >>,
    << "handbook", "a" >>, << "handbook", "and" >>, << "handbook", "o" >>,
    << "holiday", "a" >>, << "holiday", "id" >>, << "holiday", "o" >>,
    << "hours", "o" >>, << "incorporation", "a" >>, << "incorporation", "o" >>,
    << "incorporation", "on" >>, << "indemnity", "it" >>, << "indemnity", "m" >>,
    << "information", "a" >>, << "information", "for" >>, << "information", "form" >>,
    << "information", "m" >>, << "information", "o" >>, << "information", "on" >>,
    << "internal", "a" >>, << "job", "o" >>, << "jurisdiction", "is" >>,
    << "jurisdiction", "o" >>, << "jurisdiction", "on" >>, << "law", "a" >>,
    << "leave", "a" >>, << "liability", "a" >>, << "liability", "it" >>,
    << "management", "a" >>, << "management", "m" >>, << "meeting", "m" >>,
    << "member", "m" >>, << "members", "m" >>, << "members", "member" >>,
    << "memorandum", "a" >>, << "memorandum", "and" >>, << "memorandum", "m" >>,
    << "memorandum", "mo" >>, << "memorandum", "o" >>, << "mo", "m" >>,
    << "mo", "o" >>, << "moa", "a" >>, << "moa", "m" >>,
    << "moa", "mo" >>, << "moa", "o" >>, << "moa", "oa" >>,
    << "name", "a" >>, << "name", "m" >>, << "nationality", "a" >>,
    << "nationality", "it" >>, << "nationality", "o" >>, << "nationality", "on" >>,
    << "no", "o" >>, << "non", "o" >>, << "non", "on" >>,
    << "non-disclosure", "disclosure" >>, << "non-disclosure", "is" >>, << "non-disclosure", "non" >>,
    << "non-disclosure", "o" >>, << "non-disclosure", "on" >>, << "nondisclosure", "disclosure" >>,
    << "nondisclosure", "is" >>, << "nondisclosure", "non" >>, << "nondisclosure", "o" >>,
    << "nondisclosure", "on" >>, << "notice", "o" >>, << "number", "m" >>,
    << "oa", "a" >>, << "oa", "o" >>, << "objects", "o" >>,
    << "of", "o" >>, << "office", "o" >>, << "office", "of" >>,
    << "on", "o" >>, << "onshore", "o" >>, << "onshore", "on" >>,
    << "other", "o" >>, << "other", "the" >>, << "owner", "o" >>,
    << "ownership", "o" >>, << "ownership", "owner" >>, << "parties", "a" >>,
    << "passport", "a" >>, << "passport", "o" >>, << "pay", "a" >>,
    << "period", "o" >>, << "permit", "it" >>, << "permit", "m" >>,
    << "policy", "o" >>, << "position", "it" >>, << "position", "o" >>,
    << "position", "on" >>, << "probation", "a" >>, << "probation", "o" >>,
    << "probation", "on" >>, << "procedures", "o" >>, << "register", "is" >>,
    << "registered", "is" >>, << "registered", "register" >>, << "registration", "a" >>,
    << "registration", "is" >>, << "registration", "o" >>, << "registration", "on" >>,
    << "regulations", "a" >>, << "regulations", "o" >>, << "regulations", "on" >>,
    << "regulatory", "a" >>, << "regulatory", "o" >>, << "remuneration", "a" >>,
    << "remuneration", "m" >>, << "remuneration", "o" >>, << "remuneration", "on" >>,
    << "renewal", "a" >>, << "requirements", "m" >>, << "residence", "id" >>,
    << "resolution", "o" >>, << "resolution", "on" >>, << "resolutions", "o" >>,
    << "resolutions", "on" >>, << "resolutions", "resolution" >>, << "resolved", "o" >>,
    << "risk", "is" >>, << "role", "o" >>, << "salary", "a" >>,
    << "shareholder", "a" >>, << "shareholder", "o" >>, << "shareholders", "a" >>,
    << "shareholders", "o" >>, << "shareholders", "shareholder" >>, << "shareholding", "a" >>,
    << "shareholding", "o" >>, << "signature", "a" >>, << "statement", "a" >>,
    << "statement", "m" >>, << "suggestion", "o" >>, << "suggestion", "on" >>,
    << "termination", "a" >>, << "termination", "m" >>, << "termination", "o" >>,
    << "termination", "on" >>, << "terms", "m" >>, << "that", "a" >>,
    << "title", "it" >>, << "trial", "a" >>, << "uae", "a" >>,
    << "ubo", "o" >>, << "ultimate", "a" >>, << "ultimate", "m" >>,
    << "vacation", "a" >>, << "vacation", "o" >>, << "vacation", "on" >>,
    << "wage", "a" >>, << "witness", "it" >>, << "witnessed", "it" >>,
    << "witnessed", "witness" >>, << "work", "o" >>, << "working", "o" >>,
    << "working", "work" >> }

\* Words that are a run of digits.
DigitWords == { "5" }

(***************************************************************************)
(* Inputs: the paragraphs, table rows and reply parts documents and replies *)
(* are built from.                                                          *)
(***************************************************************************)
ParaPool == {
    << >>,
    << "Board", "Resolution" >>,
    << "Board", "Resolutions" >>,
    << "it", "is", "resolved", "that" >>,
    << "Article", "5" >>,
    << "License", "Renewal" >>,
    << "permit", "is", "resolved" >> }

RowPool == {
    << << >>, << "Employment", "Contract" >> >> }

PartPool == {
    << "Board", " ", "Resolution" >>,
    << "Employment", " ", "Contract" >>,
    << "\"", "shareholder", " ", "resolution", "\"" >>,
    << "Board", " ", "Resolutions" >>,
    << "Other" >>,
    << " " >> }

Range(s) == { s[i] : i \in DOMAIN s }

(***************************************************************************)
(* The document type taxonomy, in the declaration order of TYPE_RULES.     *)
(***************************************************************************)
TypeNames == [ k \in DOMAIN TYPE_RULES |-> TYPE_RULES[k].name ] \o << >>

DocTypes == Range(TypeNames)

TypeIndex(t) == IF t \in DocTypes THEN CHOOSE i \in DOMAIN TypeNames : TypeNames[i] = t ELSE 0

SeqsUpTo(S, n) == UNION { [ 1..k -> S ] : k \in 0..n }

\* The value of a result variable before the call has returned.
NoResult == << "none" >>

\* The value of doc when no file is under analysis.
NoDoc == [ readable |-> FALSE, paragraphs |-> << >>, rows |-> << >> ]

\* The variables of a component that is not running.
ChecklistIdle ==
    /\ found_types = << >>
    /\ process = "Unknown"
    /\ issues = << >>
    /\ hash_seed = 1
    /\ missing = NoResult
    /\ problematic = NoResult

DetectIdle ==
    /\ api_key = FALSE
    /\ type_scores = << >>
    /\ detected = NoResult
    /\ n_scored = 0
    /\ n_clients = 0
    /\ n_asks = 0
    /\ response = NoResult
    /\ raised = FALSE


ParserIdle == doc = NoDoc /\ DetectIdle

RulesIdle ==
    /\ doc_type = "Unknown"
    /\ rag_env = [ available |-> FALSE, passages |-> << >>, bad_query |-> 0 ]
    /\ llm_env = [ api_key |-> TRUE, fails |-> TRUE, parts |-> << >> ]
    /\ collected = << >>
    /\ contexts = << >>
    /\ n_queries = 0
    /\ caught = "none"
    /\ result = NoResult

ComposerIdle ==
    /\ prompt = << >>
    /\ context = << >>
    /\ suggestion = NoResult

RerunIdle ==
    /\ previous = NoResult
    /\ runs_left = 0

BatchIdle ==
    /\ uploaded = << >>
    /\ file_index = 1
    /\ filepaths = << >>
    /\ doc_types = << >>
    /\ all_issues = << >>
    /\ summaries = << >>
    /\ n_errors = 0
    /\ detected_process = "Unknown"
    /\ report = NoResult
    /\ shown = << >>
    /\ reviewed = << >>

CommentsIdle ==
    /\ summary_text = << >>
    /\ annotated = NoResult
(***************************************************************************)
(* app/rules.py: the patterns of the rule engine, read word by word like    *)
(* those of TYPE_RULES.  In "date:?\s*[_\s]{3,}" the run is read as a word of *)
(* three or more underscores; in "non.?disclosure" the optional character   *)
(* is a hyphen, a blank or nothing.                                         *)
(***************************************************************************)
requirement_patterns == <<
    [ name |-> "signature",
      pattern |-> [ lb |-> FALSE, rb |-> FALSE, alts |-> << << "signed" >>, << "signature" >>, << "execution" >>, << "witnessed" >> >> ] ],
    [ name |-> "date",
      pattern |-> [ lb |-> FALSE, rb |-> FALSE, alts |-> << << "date" >>, << "effective", "date" >>, << "commencement" >> >> ] ],
    [ name |-> "parties",
      pattern |-> [ lb |-> FALSE, rb |-> FALSE, alts |-> << << "parties" >>, << "contracting", "parties" >> >> ] ],
    [ name |-> "jurisdiction",
      pattern |-> [ lb |-> FALSE, rb |-> FALSE, alts |-> << << "jurisdiction" >>, << "governing", "law" >>, << "ADGM" >> >> ] ],
    [ name |-> "address",
      pattern |-> [ lb |-> FALSE, rb |-> FALSE, alts |-> << << "address" >>, << "registered", "office" >> >> ] ],
    [ name |-> "termination",
      pattern |-> [ lb |-> FALSE, rb |-> FALSE, alts |-> << << "termination" >>, << "expiry" >>, << "end" >> >> ] ],
    [ name |-> "liability",
      pattern |-> [ lb |-> FALSE, rb |-> FALSE, alts |-> << << "liability" >>, << "indemnity" >>, << "damages" >> >> ] ],
    [ name |-> "confidentiality",
      pattern |-> [ lb |-> FALSE, rb |-> FALSE, alts |-> << << "confidential" >>, << "non-disclosure" >>, << "nondisclosure" >>, << "non", "disclosure" >> >> ] ] >>

corporate_docs == << "Articles of Association", "Memorandum of Association", "Board Resolution", "Shareholder Resolution" >>

HasAdgmPattern == [ lb |-> TRUE, rb |-> TRUE, alts |-> << << "ADGM" >> >> ]

\* The blanks of this pattern are literal blanks.
HasUaeFederalPattern == [ lb |-> FALSE, rb |-> FALSE, alts |-> << << "UAE", "Federal", "Court" >>, << "onshore", "UAE" >>, << "Dubai", "Courts" >>, << "UAE", "Federal", "Law" >> >> ]

JurisdictionWordPattern == [ lb |-> FALSE, rb |-> FALSE, alts |-> << << "jurisdiction" >>, << "law" >>, << "court" >>, << "governed" >> >> ]

required_fields == <<
    [ name |-> "full name",
      pattern |-> [ lb |-> FALSE, rb |-> FALSE, alts |-> << << "full", "name" >>, << "name" >> >> ] ],
    [ name |-> "date of birth",
      pattern |-> [ lb |-> FALSE, rb |-> FALSE, alts |-> << << "date", "of", "birth" >>, << "birth" >>, << "DOB" >>, << "born" >> >> ] ],
    [ name |-> "nationality",
      pattern |-> [ lb |-> FALSE, rb |-> FALSE, alts |-> << << "nationality" >>, << "citizen" >> >> ] ],
    [ name |-> "passport",
      pattern |-> [ lb |-> FALSE, rb |-> FALSE, alts |-> << << "passport" >>, << "ID", "number" >> >> ] ],
    [ name |-> "address",
      pattern |-> [ lb |-> FALSE, rb |-> FALSE, alts |-> << << "address" >>, << "residence" >> >> ] ] >>

employment_requirements == <<
    [ name |-> "job title/position",
      pattern |-> [ lb |-> FALSE, rb |-> FALSE, alts |-> << << "job", "title" >>, << "job", "position" >>, << "job", "role" >>, << "title" >>, << "position" >>, << "role" >> >> ] ],
    [ name |-> "salary/compensation",
      pattern |-> [ lb |-> FALSE, rb |-> FALSE, alts |-> << << "salary" >>, << "wage" >>, << "compensation" >>, << "remuneration" >>, << "pay" >> >> ] ],
    [ name |-> "working hours",
      pattern |-> [ lb |-> FALSE, rb |-> FALSE, alts |-> << << "working", "hours" >>, << "work", "schedule" >>, << "hours", "of", "work" >> >> ] ],
    [ name |-> "probation period",
      pattern |-> [ lb |-> FALSE, rb |-> FALSE, alts |-> << << "probation" >>, << "trial", "period" >> >> ] ],
    [ name |-> "termination clause",
      pattern |-> [ lb |-> FALSE, rb |-> FALSE, alts |-> << << "termination" >>, << "dismiss" >>, << "notice", "period" >> >> ] ],
    [ name |-> "leave entitlement",
      pattern |-> [ lb |-> FALSE, rb |-> FALSE, alts |-> << << "leave" >>, << "holiday" >>, << "vacation" >>, << "sick", "leave" >>, << "annual", "leave" >> >> ] ] >>

signature_patterns == <<
    [ lb |-> FALSE, rb |-> FALSE, alts |-> << << "signed" >>, << "signature" >> >> ],
    [ lb |-> FALSE, rb |-> FALSE, alts |-> << << "date:", "___" >>, << "date", "___" >>, << "date:___" >>, << "date___" >> >> ],
    [ lb |-> FALSE, rb |-> FALSE, alts |-> << << "executed", "on" >> >> ],
    [ lb |-> FALSE, rb |-> FALSE, alts |-> << << "witness" >> >> ] >>

(***************************************************************************)
(* Inputs of the rule engine: paragraphs of the documents it reads and      *)
(* passages the retrieval database answers with.                            *)
(***************************************************************************)
RuleParaPool == {
    << >>,
    << "Board", "Resolution" >>,
    << "governed", "by", "ADGM", "law" >>,
    << "Dubai", "Courts" >>,
    << "Signed", "by", "the", "witness" >>,
    << "name", "birth", "nationality", "address" >>,
    << "title", "salary", "working", "hours", "probation", "termination", "leave", "passport" >> }

PassagePool == {
    << "signature", "and", "date", "required" >>,
    << "No", "specific", "requirements", "beyond", "signature" >> }

(***************************************************************************)
(* app/checklist.py                                                        *)
(***************************************************************************)
ADGM_CHECKLIST == [ p \in { "Company Incorporation", "Licensing Regulatory Filings",
                            "Employment HR Contracts", "Commercial Agreements",
                            "Compliance Risk Policies" } |->
    CASE p = "Company Incorporation" ->
           << "Articles of Association", "Memorandum of Association",
              "Incorporation Application Form", "UBO Declaration", "Board Resolution",
              "Register of Members and Directors", "Shareholder Resolution",
              "Change of Registered Address Notice" >>
      [] p = "Licensing Regulatory Filings" ->
           << "Licensing Regulatory Filing", "Renewal Application Form",
              "Compliance Declaration" >>
      [] p = "Employment HR Contracts" -> << "Employment Contract" >>
      [] p = "Commercial Agreements" -> << "Commercial Agreement" >>
      [] p = "Compliance Risk Policies" -> << "Compliance Risk Policy" >> ]

\* Iteration order of a Python set of strings: the order of the elements' hash
\* slots, which the interpreter's hash seed fixes for the life of the process.
HashSlot(t, seed) == (TypeIndex(t) * seed) % 17

RECURSIVE ListOfSet(_, _)
ListOfSet(S, seed) ==
    IF S = {} THEN << >>
    ELSE LET first == CHOOSE t \in S : \A u \in S : HashSlot(t, seed) <= HashSlot(u, seed)
         IN  << first >> \o ListOfSet(S \ { first }, seed)

\* Variant of ProblematicFrom: the test "dt in found" is left out.
RECURSIVE MutProblematicFrom(_, _, _, _, _)
MutProblematicFrom(iss, k, required, found, acc) ==
    IF k > Len(iss) THEN acc
    ELSE LET dt == iss[k].document_type
         IN  IF dt \in required /\ dt \notin Range(acc)
             THEN MutProblematicFrom(iss, k + 1, required, found, Append(acc, dt))
             ELSE MutProblematicFrom(iss, k + 1, required, found, acc)

\* Variant of ProblematicFrom: a new type is put in front of the list.
RECURSIVE MutProblematicPrepend(_, _, _, _, _)
MutProblematicPrepend(iss, k, required, found, acc) ==
    IF k > Len(iss) THEN acc
    ELSE LET dt == iss[k].document_type
         IN  IF dt \in required /\ dt \in found /\ dt \notin Range(acc)
             THEN MutProblematicPrepend(iss, k + 1, required, found, << dt >> \o acc)
             ELSE MutProblematicPrepend(iss, k + 1, required, found, acc)

\* The loop over issues of verify_checklist, from issue k on, with the list
\* built so far.
RECURSIVE ProblematicFrom(_, _, _, _, _)
ProblematicFrom(iss, k, required, found, acc) ==
    IF k > Len(iss) THEN acc
    ELSE LET dt == iss[k].document_type
         IN  IF dt \in required /\ dt \in found /\ dt \notin Range(acc)
             THEN ProblematicFrom(iss, k + 1, required, found, Append(acc, dt))
             ELSE ProblematicFrom(iss, k + 1, required, found, acc)

\* Variant of MissingList: the uploaded types are not subtracted.
MutMissingList(required, found, seed) == ListOfSet(required, seed)

MissingList(required, found, seed) == ListOfSet(required \ found, seed)

Required(p) == Range(ADGM_CHECKLIST[p])

\* Variant of verify_checklist: an unknown process falls back to the first process.
Mut_verify_checklist(ft, p, iss, seed) ==
    LET q == IF p \in DOMAIN ADGM_CHECKLIST THEN p ELSE "Company Incorporation"
        required == Required(q)
        found == Range(ft)
    IN  [ missing |-> ListOfSet(required \ found, seed),
          problematic |-> IF iss # << >>
                          THEN ProblematicFrom(iss, 1, required, found, << >>)
                          ELSE << >> ]

verify_checklist(ft, p, iss, seed) ==
    IF p \notin DOMAIN ADGM_CHECKLIST
    THEN [ missing |-> << >>, problematic |-> << >> ]
    ELSE LET required == Required(p)
             found == Range(ft)
         IN  [ missing |-> MissingList(required, found, seed),
               problematic |-> IF iss # << >>
                               THEN ProblematicFrom(iss, 1, required, found, << >>)
                               ELSE << >> ]

(***************************************************************************)
(* app/parser.py: matching of a pattern on a text of words.                *)
(***************************************************************************)
\* The case folding of re.I, applied to the text and to the pattern alike.
Fold(w) == Lower(w)

\* The sequence with f applied to every element.
RECURSIVE MapSeq(_, _)
MapSeq(f(_), s) == IF s = << >> THEN << >> ELSE << f(Head(s)) >> \o MapSeq(f, Tail(s))

FoldText(text) == MapSeq(Fold, text)

FoldPattern(pat) ==
    [ lb |-> pat.lb, rb |-> pat.rb,
      alts |-> MapSeq(FoldText, pat.alts) ]

\* One folded word of the text against one folded word of a pattern.  The
\* match is free on the left when the word opens a pattern without \b (it may
\* start inside the text's word) and free on the right when it closes a
\* pattern without \b.
WordMatch(t, l, free_left, free_right) ==
    \/ t = l /\ l # "\\d+"
    \/ l = "\\d+" /\ t \in DigitWords
    \/ free_right /\ ~free_left /\ << t, l >> \in PrefixPairs
    \/ free_left /\ ~free_right /\ << t, l >> \in SuffixPairs
    \/ free_left /\ free_right /\ << t, l >> \in InfixPairs

AltMatchesAt(text, i, alt, pat) ==
    /\ i + Len(alt) - 1 <= Len(text)
    /\ \A j \in DOMAIN alt :
           WordMatch(text[i + j - 1], alt[j], j = 1 /\ ~pat.lb, j = Len(alt) /\ ~pat.rb)

\* Number of words the pattern matches at word i of the text (0: no match
\* there): the first alternative that matches, in the engine's order, from
\* alternative a on.
RECURSIVE MatchLenFrom(_, _, _, _)
MatchLenFrom(text, i, pat, a) ==
    IF a > Len(pat.alts) THEN 0
    ELSE IF AltMatchesAt(text, i, pat.alts[a], pat) THEN Len(pat.alts[a])
    ELSE MatchLenFrom(text, i, pat, a + 1)

MatchLenAt(text, i, pat) == MatchLenFrom(text, i, pat, 1)

\* The non-overlapping matches of a folded pattern in a folded text, leftmost
\* first, from word i on.
RECURSIVE CountFrom(_, _, _)
CountFrom(text, i, pat) ==
    IF i > Len(text) THEN 0
    ELSE LET n == MatchLenAt(text, i, pat)
         IN  IF n > 0 THEN 1 + CountFrom(text, i + n, pat)
             ELSE CountFrom(text, i + 1, pat)

\* len(re.findall(pattern, text, flags=re.I))
FindAllCount(pat, text) == CountFrom(FoldText(text), 1, FoldPattern(pat))

(***************************************************************************)
(* extract_document_content                                                *)
(***************************************************************************)
RECURSIVE Flatten(_)
Flatten(ss) == IF ss = << >> THEN << >> ELSE Head(ss) \o Flatten(Tail(ss))

NonBlank(ss) == SelectSeq(ss, LAMBDA s : s # << >>)

RECURSIVE JoinWith(_, _)
JoinWith(ss, sep) ==
    IF ss = << >> THEN << >>
    ELSE IF Len(ss) = 1 THEN ss[1]
    ELSE ss[1] \o sep \o JoinWith(Tail(ss), sep)

\* " | ".join(row_text) over the non-blank cells of a row.
RowText(row) == JoinWith(NonBlank(row), << "|" >>)

extract_document_content(file) ==
    IF ~file.readable
    THEN [ combined_text |-> << >>, paragraph_text |-> << >>, table_text |-> << >> ]
    ELSE LET paragraph_text == NonBlank(file.paragraphs)
             table_text == NonBlank([ r \in DOMAIN file.rows |-> RowText(file.rows[r]) ])
         IN  [ combined_text |-> Flatten(paragraph_text \o table_text),
               paragraph_text |-> paragraph_text,
               table_text |-> table_text ]

(***************************************************************************)
(* detect_doc_type: the scoring.                                           *)
(***************************************************************************)
\* TYPE_RULES with every pattern folded.
FoldRule(rule) == [ name |-> rule.name, patterns |-> MapSeq(FoldPattern, rule.patterns) ]

FoldedRules == MapSeq(FoldRule, TYPE_RULES)

\* The score of a type: the counts of its folded patterns in the folded text,
\* summed from pattern k on.
RECURSIVE SumCounts(_, _, _)
SumCounts(patterns, k, folded) ==
    IF k > Len(patterns) THEN 0
    ELSE CountFrom(folded, 1, patterns[k]) + SumCounts(patterns, k + 1, folded)

\* type_scores: the types with a score above 0, in the order of TYPE_RULES.
TypeScores(text) ==
    LET folded == FoldText(text)
        Entry(rule) == [ doc_type |-> rule.name, score |-> SumCounts(rule.patterns, 1, folded) ]
    IN  SelectSeq(MapSeq(Entry, FoldedRules), LAMBDA e : e.score > 0)

\* Variant of MaxByScore: a later entry with an equal score replaces the best.
RECURSIVE MutMaxByScore(_, _, _)
MutMaxByScore(entries, k, best) ==
    IF k > Len(entries) THEN best
    ELSE IF entries[k].score >= best.score THEN MutMaxByScore(entries, k + 1, entries[k])
    ELSE MutMaxByScore(entries, k + 1, best)

\* max(type_scores.items(), key=score): the scan keeps the first entry and
\* replaces it only by a strictly larger one.
RECURSIVE MaxByScore(_, _, _)
MaxByScore(entries, k, best) ==
    IF k > Len(entries) THEN best
    ELSE IF entries[k].score > best.score THEN MaxByScore(entries, k + 1, entries[k])
    ELSE MaxByScore(entries, k + 1, best)

NumPatterns == LET RECURSIVE N(_)
                   N(k) == IF k > Len(TYPE_RULES) THEN 0 ELSE Len(TYPE_RULES[k].patterns) + N(k + 1)
               IN  N(1)

(***************************************************************************)
(* app/models/llm_client.py and the generative fallback of detect_doc_type. *)
(* A reply is a sequence of atoms: words, blanks and quote characters.     *)
(***************************************************************************)
Blanks == { " ", "\n" }

Quotes == { "\"", "'" }

\* str.strip()
RECURSIVE StripLeft(_)
StripLeft(s) == IF s # << >> /\ Head(s) \in Blanks THEN StripLeft(Tail(s)) ELSE s

RECURSIVE StripRight(_)
StripRight(s) ==
    IF s # << >> /\ s[Len(s)] \in Blanks THEN StripRight(SubSeq(s, 1, Len(s) - 1)) ELSE s

Strip(s) == StripRight(StripLeft(s))

\* .replace('"', '').replace("'", "")
RemoveQuotes(s) == SelectSeq(s, LAMBDA a : a \notin Quotes)

Placeholder == << "[No", " ", "suggestion", " ", "available]" >>

\* The generative service as the client meets it: whether an API key is
\* configured, whether generate_content fails, and the text parts of the
\* candidates it answers with.
LlmEnv(key, fails, parts) == [ api_key |-> key, fails |-> fails, parts |-> parts ]

\* GeminiClient.ask: the parts with text joined by a blank and stripped; the
\* placeholder when the call fails or no part has text.
GeminiAsk(env) ==
    IF env.fails THEN Placeholder
    ELSE LET collected_parts == NonBlank(env.parts)
         IN  IF collected_parts # << >> THEN Strip(JoinWith(collected_parts, << " " >>))
             ELSE Placeholder

\* A generative service whose reply is a function of the message: it answers
\* with the first line of the context it is given.
QuotingLlmEnv == [ api_key |-> TRUE, fails |-> FALSE, parts |-> << >>, quotes |-> TRUE ]

RECURSIVE FirstLine(_)
FirstLine(text) ==
    IF text = << >> \/ Head(text) = "\n" THEN << >>
    ELSE << Head(text) >> \o FirstLine(Tail(text))

\* GeminiClient.ask(prompt, context), for a service that quotes its context
\* and for one that answers whatever the message.
GeminiAskWith(env, context_) ==
    IF "quotes" \in DOMAIN env
    THEN GeminiAsk(LlmEnv(env.api_key, env.fails, << FirstLine(context_) >>))
    ELSE GeminiAsk(env)

\* doc_type.lower(), as atoms.
NameAtomsOf(ws) == LET One(w) == << Lower(w) >> IN JoinWith(MapSeq(One, ws), << " " >>)

NameAtoms == MapSeq(NameAtomsOf, NameWords)

Substring == [ lb |-> FALSE, rb |-> FALSE ]

\* doc_type.lower() in response.lower()
NameIn(k, resp) ==
    LET lowered == MapSeq(Lower, resp)
    IN  \E i \in DOMAIN resp : AltMatchesAt(lowered, i, NameAtoms[k], Substring)

\* Variant of FirstTypeIn: the scan keeps the last type whose name occurs.
RECURSIVE MutFirstTypeIn(_, _)
MutFirstTypeIn(resp, k) ==
    IF k > Len(TYPE_RULES) THEN "Unknown"
    ELSE LET later == MutFirstTypeIn(resp, k + 1)
         IN  IF later # "Unknown" THEN later
             ELSE IF NameIn(k, resp) THEN TYPE_RULES[k].name ELSE "Unknown"

\* The loop over TYPE_RULES of the fallback, from rule k on.
RECURSIVE FirstTypeIn(_, _)
FirstTypeIn(resp, k) ==
    IF k > Len(TYPE_RULES) THEN "Unknown"
    ELSE IF NameIn(k, resp) THEN TYPE_RULES[k].name
    ELSE FirstTypeIn(resp, k + 1)

\* The validation of the reply.
ClassifyReply(resp) ==
    IF resp # << >> /\ Strip(resp) # << >>
    THEN FirstTypeIn(RemoveQuotes(Strip(resp)), 1)
    ELSE "Unknown"

DetectResult(t, scored, clients, asks, resp, exc) ==
    [ detected |-> t, n_scored |-> scored, n_clients |-> clients, n_asks |-> asks,
      response |-> resp, raised |-> exc ]

\* Variant of LlmFallback: a reply that names no type is asked for again.
MutLlmFallbackRetry(env, scored) ==
    IF ~env.api_key
    THEN DetectResult("Unknown", scored, 1, 0, NoResult, FALSE)
    ELSE LET resp == GeminiAsk(env)
         IN  IF ClassifyReply(resp) = "Unknown"
             THEN DetectResult(ClassifyReply(resp), scored, 1, 2, resp, FALSE)
             ELSE DetectResult(ClassifyReply(resp), scored, 1, 1, resp, FALSE)

\* The try block of the fallback: GeminiClient() raises ValueError without an
\* API key; otherwise the reply of gemini.ask is validated.
FallbackTry(env, scored) ==
    IF ~env.api_key
    THEN DetectResult(NoResult, scored, 1, 0, NoResult, TRUE)
    ELSE LET resp == GeminiAsk(env)
         IN  DetectResult(ClassifyReply(resp), scored, 1, 1, resp, FALSE)

\* The fallback with its handler: every exception of the try block is caught
\* and the function goes on to return "Unknown".
LlmFallback(env, scored) ==
    LET r == FallbackTry(env, scored)
    IN  IF r.raised THEN [ r EXCEPT !.detected = "Unknown", !.raised = FALSE ] ELSE r

\* detect_doc_type from the scores on: the best scoring type, or the fallback.
ClassifyScored(scores, env) ==
    IF scores # << >>
    THEN DetectResult(MaxByScore(scores, 2, scores[1]).doc_type,
                      NumPatterns, 0, 0, NoResult, FALSE)
    ELSE LlmFallback(env, NumPatterns)

\* Variant of detect_doc_type: no early return on an empty text.
Mut_detect_doc_type(file, env) ==
    ClassifyScored(TypeScores(extract_document_content(file).combined_text), env)

detect_doc_type(file, env) ==
    LET text == extract_document_content(file).combined_text
    IN  IF text = << >>
        THEN DetectResult("Unknown", 0, 0, 0, NoResult, FALSE)
        ELSE ClassifyScored(TypeScores(text), env)

(***************************************************************************)
(* app/rag.py: the retrieval provider.                                     *)
(***************************************************************************)
\* The retrieval database as a run of the rule engine meets it: what
\* check_rag_database_status reports, the passages a query is answered with,
\* and the query of the run (0: none) whose answer holds, ahead of the
\* passages, a document that is not a string.
RagEnv(available, passages, bad_query) ==
    [ available |-> available, passages |-> passages, bad_query |-> bad_query ]

\* retrieve_relevant_passages, for the q-th query of the run.  An error of the
\* query is caught there and answered with the empty list.
retrieve_relevant_passages(env, q) ==
    [ documents |-> env.passages, strings |-> q # env.bad_query ]

\* Truth value of the list a query returned.
NonEmptyAnswer(a) == a.documents # << >> \/ ~a.strings

\* "\n".join(...) over passages that are all strings.
JoinLines(passages) == JoinWith(passages, << "\n" >>)

FirstN(s, n) == SubSeq(s, 1, IF Len(s) < n THEN Len(s) ELSE n)

\* words occurs in text, word for word.
Contains(text, words) ==
    \E i \in 1..(Len(text) - Len(words) + 1) : SubSeq(text, i, i + Len(words) - 1) = words

NoRequirements(dt) ==
    << "No", "specific", "requirements", "found", "in", "knowledge", "base", "for", dt >>

\* get_document_requirements: the first five passages joined, or the sentence
\* that nothing was found; the join raises TypeError on a document that is not
\* a string.
get_document_requirements(dt, env, q) ==
    LET a == retrieve_relevant_passages(env, q)
    IN  IF NonEmptyAnswer(a)
        THEN [ raised |-> ~a.strings, text |-> JoinLines(FirstN(a.documents, 5)) ]
        ELSE [ raised |-> FALSE, text |-> NoRequirements(dt) ]

\* The distinct elements of a list, in the order of their first occurrence.
RECURSIVE FirstOccurrences(_)
FirstOccurrences(s) ==
    IF s = << >> THEN << >>
    ELSE << Head(s) >> \o FirstOccurrences(SelectSeq(Tail(s), LAMBDA x : x # Head(s)))

\* The hash slot of a passage under a hash seed.
PassageSlot(p, seed) == (Len(p) * seed) % 3

\* Iteration order of a set of passages: by hash slot, passages of one slot in
\* the order of insertion.
RECURSIVE SetOrder(_, _)
SetOrder(s, seed) ==
    IF s = << >> THEN << >>
    ELSE LET k == CHOOSE i \in DOMAIN s : \A j \in DOMAIN s :
                      \/ PassageSlot(s[i], seed) < PassageSlot(s[j], seed)
                      \/ PassageSlot(s[i], seed) = PassageSlot(s[j], seed) /\ i <= j
         IN  << s[k] >> \o SetOrder(SubSeq(s, 1, k - 1) \o SubSeq(s, k + 1, Len(s)), seed)

\* list(set(all_context)): the distinct passages in the iteration order of the
\* set, which the hash seed of the interpreter fixes.
Unique(s) == SetOrder(FirstOccurrences(s), hash_seed)

\* get_rag_enhanced_suggestion: queries q+1, q+2 and q+3 of the run; the join
\* of the merged passages raises TypeError on a document that is not a string.
get_rag_enhanced_suggestion(env, q) ==
    LET a1 == retrieve_relevant_passages(env, q + 1)
        a2 == retrieve_relevant_passages(env, q + 2)
        a3 == retrieve_relevant_passages(env, q + 3)
        unique_context == Unique(a1.documents \o a2.documents \o a3.documents)
    IN  [ raised |-> ~(a1.strings /\ a2.strings /\ a3.strings),
          combined_context |-> JoinLines(FirstN(unique_context, 15)) ]
(***************************************************************************)
(* app/rules.py: the compliance rule engine.  Texts, prompts, contexts and *)
(* suggestions are sequences of words and fixed phrases.                   *)
(***************************************************************************)
\* re.search(pattern, text, re.I)
Search(pat, text) ==
    LET folded == FoldText(text)
        p == FoldPattern(pat)
    IN  \E i \in DOMAIN folded : MatchLenAt(folded, i, p) > 0

\* response.startswith(("[No suggestion", "[No response"))
StartsWithMarker(resp) ==
    /\ Len(resp) >= 3
    /\ resp[1] = "[No"
    /\ resp[2] = " "
    /\ resp[3] \in { "suggestion", "response" }

\* Variant of get_rag_powered_suggestion: only a placeholder is replaced by
\* the fallback sentence.
Mut_get_rag_powered_suggestion(prompt_, dt, context_, env, llm, q) ==
    LET rag == get_rag_enhanced_suggestion(env, q)
        full_context == IF context_ # << >>
                        THEN rag.combined_context \o << "\n", "\n" >> \o context_
                        ELSE rag.combined_context
        resp == GeminiAskWith(llm, full_context)
    IN  IF rag.raised
        THEN << "Ensure compliance with ADGM laws. (Error:", "TypeError", ")" >>
        ELSE IF StartsWithMarker(resp)
        THEN << "Review", dt, "against ADGM requirements:" >> \o Strip(prompt_)
        ELSE Strip(resp)

\* get_rag_powered_suggestion, called after q queries of the run: the reply of
\* gemini.ask stripped; the fallback sentence for an empty reply or a
\* placeholder; the apology when the retrieval context cannot be joined.
get_rag_powered_suggestion(prompt_, dt, context_, env, llm, q) ==
    LET rag == get_rag_enhanced_suggestion(env, q)
        full_context == IF context_ # << >>
                        THEN rag.combined_context \o << "\n", "\n" >> \o context_
                        ELSE rag.combined_context
        resp == GeminiAskWith(llm, full_context)
    IN  IF rag.raised
        THEN << "Ensure compliance with ADGM laws. (Error:", "TypeError", ")" >>
        ELSE IF resp = << >> \/ StartsWithMarker(resp)
        THEN << "Review", dt, "against ADGM requirements:" >> \o Strip(prompt_)
        ELSE Strip(resp)

\* req_name in requirements_text.lower()
NameInText(name, text) ==
    \E i \in DOMAIN text : WordMatch(Lower(text[i]), name, TRUE, TRUE)

\* check_document_against_rag_requirements, as the q-th query of the run: the
\* requirement names the summary mentions and the text does not satisfy.
check_document_against_rag_requirements(dt, full_text, env, q) ==
    LET req == get_document_requirements(dt, env, q)
        Gap(r) == NameInText(r.name, req.text) /\ ~Search(r.pattern, full_text)
        NameOf(r) == r.name
    IN  IF req.raised THEN [ raised |-> TRUE, names |-> << >> ]
        ELSE IF Contains(req.text, << "No", "specific", "requirements" >>)
        THEN [ raised |-> FALSE, names |-> << >> ]
        ELSE [ raised |-> FALSE, names |-> MapSeq(NameOf, SelectSeq(requirement_patterns, Gap)) ]

\* An issue dict; the suggestion is filled in when the issue is appended.
Issue(section, n, issue, arg, severity, suggestion_, citations, dt) ==
    [ section |-> [ kind |-> section, n |-> n ],
      issue |-> [ text |-> issue, arg |-> arg ],
      severity |-> severity,
      suggestion |-> suggestion_,
      citations |-> citations,
      document_type |-> dt ]

\* The state of a run of red_flags inside its try block: the issues list, the
\* contexts handed to the suggestion composer, the number of retrieval queries
\* made, and the exception raised ("none": none).
RunState(issues_, contexts_, queries, exc) ==
    [ issues |-> issues_, contexts |-> contexts_, queries |-> queries, exc |-> exc ]

\* Variant of AddIssue: the issue is put in front of the list.
MutAddIssue(st, base, prompt_, static_ctx, use_rag, env, llm) ==
    LET q == IF use_rag THEN st.queries + 1 ELSE st.queries
        a == retrieve_relevant_passages(env, q)
    IN  IF use_rag /\ ~a.strings
        THEN RunState(st.issues, st.contexts, q, "TypeError")
        ELSE LET ctx == IF use_rag THEN JoinLines(a.documents) ELSE static_ctx
                 s == get_rag_powered_suggestion(prompt_, base.document_type, ctx, env, llm, q)
             IN  RunState(<< [ base EXCEPT !.suggestion = s ] >> \o st.issues,
                          << ctx >> \o st.contexts, q + 3, "none")

\* One issues.append(...): with use_rag, the context is the join of the
\* passages of one more query (the join raises TypeError on a document that is
\* not a string), otherwise the static sentence; then the suggestion.
AddIssue(st, base, prompt_, static_ctx, use_rag, env, llm) ==
    LET q == IF use_rag THEN st.queries + 1 ELSE st.queries
        a == retrieve_relevant_passages(env, q)
    IN  IF use_rag /\ ~a.strings
        THEN RunState(st.issues, st.contexts, q, "TypeError")
        ELSE LET ctx == IF use_rag THEN JoinLines(a.documents) ELSE static_ctx
                 s == get_rag_powered_suggestion(prompt_, base.document_type, ctx, env, llm, q)
             IN  RunState(Append(st.issues, [ base EXCEPT !.suggestion = s ]),
                          Append(st.contexts, ctx), q + 3, "none")

\* The loop over the missing requirements of the retrieval family, from the
\* k-th name on.
RECURSIVE RequirementIssues(_, _, _, _, _, _)
RequirementIssues(st, names, k, dt, env, llm) ==
    IF k > Len(names) \/ st.exc # "none" THEN st
    ELSE RequirementIssues(
             AddIssue(st,
                      Issue("General", 0, "Missing requirement identified by legal knowledge:",
                            names[k], "Medium", << >>, << "ADGM Legal Knowledge Base" >>, dt),
                      << "Document missing:", names[k] >>, << >>, TRUE, env, llm),
             names, k + 1, dt, env, llm)

\* Lines 98-112: the retrieval-sourced requirement family.
RequirementFamily(st, dt, texts, env, llm) ==
    IF ~env.available THEN st
    ELSE LET req == check_document_against_rag_requirements(dt, Flatten(texts), env,
                                                            st.queries + 1)
             asked == [ st EXCEPT !.queries = st.queries + 1 ]
         IN  IF req.raised THEN [ asked EXCEPT !.exc = "TypeError" ]
             ELSE RequirementIssues(asked, req.names, 1, dt, env, llm)

\* next((i for i, p in enumerate(texts) if re.search(...)), 0), from paragraph
\* k on (0-based result).
RECURSIVE FirstJurisdictionParagraph(_, _)
FirstJurisdictionParagraph(texts, k) ==
    IF k > Len(texts) THEN 0
    ELSE IF Search(JurisdictionWordPattern, texts[k]) THEN k - 1
    ELSE FirstJurisdictionParagraph(texts, k + 1)

\* Variant of JurisdictionCheck: the issue takes both conditions.
MutJurisdictionCheck(st, dt, texts, env, llm) ==
    LET has_adgm == Search(HasAdgmPattern, Flatten(texts))
        has_uae_federal == \E p \in DOMAIN texts : Search(HasUaeFederalPattern, texts[p])
        idx == FirstJurisdictionParagraph(texts, 1)
    IN  IF dt \in Range(corporate_docs) /\ (has_uae_federal /\ ~has_adgm)
        THEN AddIssue(st,
                      Issue("Paragraph", idx + 1,
                            "Jurisdiction not specific to ADGM or references UAE Federal law", "",
                            "High", << >>, << "Companies Regulations 2020 s.6-12" >>, dt),
                      << "Jurisdiction issue in", dt, ". Text:" >> \o texts[idx + 1],
                      << "ADGM jurisdiction required for corporate documents" >>,
                      env.available, env, llm)
        ELSE st

\* Lines 114-139: the jurisdiction check.  The blanks of the external
\* jurisdiction markers are literal, so that a marker lies within a paragraph.
\* The dash of the citation is written as a hyphen.
JurisdictionCheck(st, dt, texts, env, llm) ==
    LET has_adgm == Search(HasAdgmPattern, Flatten(texts))
        has_uae_federal == \E p \in DOMAIN texts : Search(HasUaeFederalPattern, texts[p])
        idx == FirstJurisdictionParagraph(texts, 1)
    IN  IF dt \in Range(corporate_docs) /\ (has_uae_federal \/ ~has_adgm)
        THEN AddIssue(st,
                      Issue("Paragraph", idx + 1,
                            "Jurisdiction not specific to ADGM or references UAE Federal law", "",
                            "High", << >>, << "Companies Regulations 2020 s.6-12" >>, dt),
                      << "Jurisdiction issue in", dt, ". Text:" >> \o texts[idx + 1],
                      << "ADGM jurisdiction required for corporate documents" >>,
                      env.available, env, llm)
        ELSE st

\* The wording of the two type-specific families.
UboWording ==
    [ issue |-> "Missing UBO field:", severity |-> "High",
      citation |-> "Beneficial Ownership & Control Regulations 2022",
      query |-> "UBO", context |-> "UBO declarations must include",
      prompt |-> "UBO declaration missing:" ]

EmploymentWording ==
    [ issue |-> "Missing", severity |-> "Medium",
      citation |-> "Employment Regulations 2019",
      query |-> "employment", context |-> "Employment contracts must specify",
      prompt |-> "Employment contract missing:" ]

\* Variant of FieldChecks: the loop ends at the first missing field.
RECURSIVE MutFieldChecks(_, _, _, _, _, _, _, _)
MutFieldChecks(st, fields, k, wording, dt, full_text, env, llm) ==
    IF k > Len(fields) \/ st.exc # "none" THEN st
    ELSE IF Search(fields[k].pattern, full_text)
    THEN MutFieldChecks(st, fields, k + 1, wording, dt, full_text, env, llm)
    ELSE AddIssue(st,
                  Issue("General", 0, wording.issue, fields[k].name, wording.severity,
                        << >>, << wording.citation >>, dt),
                  << wording.prompt, fields[k].name, "." >>,
                  << wording.context, fields[k].name >>,
                  env.available, env, llm)

\* The loop over the mandatory fields of a type, from the k-th field on.
RECURSIVE FieldChecks(_, _, _, _, _, _, _, _)
FieldChecks(st, fields, k, wording, dt, full_text, env, llm) ==
    IF k > Len(fields) \/ st.exc # "none" THEN st
    ELSE FieldChecks(
             IF Search(fields[k].pattern, full_text) THEN st
             ELSE AddIssue(st,
                           Issue("General", 0, wording.issue, fields[k].name, wording.severity,
                                 << >>, << wording.citation >>, dt),
                           << wording.prompt, fields[k].name, "." >>,
                           << wording.context, fields[k].name >>,
                           env.available, env, llm),
             fields, k + 1, wording, dt, full_text, env, llm)

\* Lines 141-167.
UboChecks(st, dt, texts, env, llm) ==
    IF dt = "UBO Declaration"
    THEN FieldChecks(st, required_fields, 1, UboWording, dt, Flatten(texts), env, llm)
    ELSE st

\* Lines 169-196.
EmploymentChecks(st, dt, texts, env, llm) ==
    IF dt = "Employment Contract"
    THEN FieldChecks(st, employment_requirements, 1, EmploymentWording, dt,
                     Flatten(texts), env, llm)
    ELSE st

\* Variant of SignatureCheck: the severity is Medium for the Employment
\* Contract only.
MutSignatureCheck(st, dt, texts, env, llm) ==
    LET has_signature ==
            \E t \in DOMAIN texts : \E p \in DOMAIN signature_patterns :
                Search(signature_patterns[p], texts[t])
    IN  IF has_signature THEN st
        ELSE AddIssue(st,
                      Issue("End of Document", 0, "Missing signature block or execution clause", "",
                            IF dt = "Employment Contract" THEN "Medium" ELSE "Low",
                            << >>, << "Companies Regulations 2020" >>, dt),
                      << "Missing signature block" >>,
                      << "Documents must be properly executed with signatures" >>,
                      env.available, env, llm)

\* Lines 198-223: the signature check, over the paragraphs one by one.
SignatureCheck(st, dt, texts, env, llm) ==
    LET has_signature ==
            \E t \in DOMAIN texts : \E p \in DOMAIN signature_patterns :
                Search(signature_patterns[p], texts[t])
    IN  IF has_signature THEN st
        ELSE AddIssue(st,
                      Issue("End of Document", 0, "Missing signature block or execution clause", "",
                            IF dt \in { "Employment Contract", "Commercial Agreement" }
                            THEN "Medium" ELSE "Low",
                            << >>, << "Companies Regulations 2020" >>, dt),
                      << "Missing signature block" >>,
                      << "Documents must be properly executed with signatures" >>,
                      env.available, env, llm)

\* Variant of EmptyResult: the issue carries the type "Unknown".
MutEmptyResult(dt) ==
    << Issue("General", 0, "Document appears to be empty or unreadable", "", "High",
             << "Please check the document format and content." >>, << >>, "Unknown") >>

\* Lines 86-94: the result for a document without a non-blank paragraph.
EmptyResult(dt) ==
    << Issue("General", 0, "Document appears to be empty or unreadable", "", "High",
             << "Please check the document format and content." >>, << >>, dt) >>

\* Variant of ExceptResult: the error issue is appended to the issues so far.
MutExceptResult(issues_, dt, exc) ==
    Append(issues_,
           Issue("General", 0, "Error analyzing document:", exc, "High",
                 << "Please check document format and try again." >>, << >>, dt))

\* Lines 228-237: the handler of the try block, entered with the issues
\* collected so far.
ExceptResult(issues_, dt, exc) ==
    << Issue("General", 0, "Error analyzing document:", exc, "High",
             << "Please check document format and try again." >>, << >>, dt) >>

\* The non-blank paragraphs, line 83.
Texts(file) == NonBlank(file.paragraphs)

\* The check families after the first, each skipped once an exception is on
\* its way to the handler.
ThenJurisdiction(st, dt, texts, env, llm) ==
    IF st.exc # "none" THEN st ELSE JurisdictionCheck(st, dt, texts, env, llm)

ThenUbo(st, dt, texts, env, llm) ==
    IF st.exc # "none" THEN st ELSE UboChecks(st, dt, texts, env, llm)

ThenEmployment(st, dt, texts, env, llm) ==
    IF st.exc # "none" THEN st ELSE EmploymentChecks(st, dt, texts, env, llm)

ThenSignature(st, dt, texts, env, llm) ==
    IF st.exc # "none" THEN st ELSE SignatureCheck(st, dt, texts, env, llm)

\* Lines 226-237: the return of the issues, or the handler of the try block.
ReturnOf(st, dt) ==
    IF st.exc # "none" THEN ExceptResult(st.issues, dt, st.exc) ELSE st.issues

\* The try block on a document with text: the families in source order.
RunFamilies(dt, texts, env, llm) ==
    ThenSignature(
        ThenEmployment(
            ThenUbo(
                ThenJurisdiction(
                    RequirementFamily(RunState(<< >>, << >>, 0, "none"), dt, texts, env, llm),
                    dt, texts, env, llm),
                dt, texts, env, llm),
            dt, texts, env, llm),
        dt, texts, env, llm)

\* red_flags as one call.
red_flags(file, dt, env, llm) ==
    IF ~file.readable THEN ExceptResult(<< >>, dt, "PackageNotFoundError")
    ELSE IF Texts(file) = << >> THEN EmptyResult(dt)
    ELSE ReturnOf(RunFamilies(dt, Texts(file), env, llm), dt)

(***************************************************************************)
(* app/summary.py and app/ui.py: the pieces main puts together.            *)
(***************************************************************************)
\* summarize_document: the note for a document without content, the fallback
\* summary for an empty reply or the placeholder, otherwise the stripped
\* reply followed by the statistics.  The documents of the model have no
\* paragraph of ten characters or less, which extract_meaningful_content
\* leaves out.
summarize_document(file, dt, llm) ==
    LET content == extract_document_content(file).combined_text
        summary == GeminiAsk(llm)
    IN  IF Strip(content) = << >>
        THEN << "[Document appears to be empty or unreadable]" >>
        ELSE IF Strip(summary) = << >> \/ Strip(summary) = Placeholder
        THEN << "**Purpose**:", dt, "**Note**: Automated summary unavailable" >>
        ELSE Strip(summary) \o << "*Document Statistics*" >>

PROCESS_MAP == <<
    [ name |-> "Company Incorporation",
      docs |-> << "Articles of Association", "Memorandum of Association",
                  "Incorporation Application Form", "UBO Declaration", "Board Resolution",
                  "Register of Members and Directors", "Shareholder Resolution",
                  "Change of Registered Address Notice" >> ],
    [ name |-> "Licensing Regulatory Filings",
      docs |-> << "Licensing Regulatory Filing", "Renewal Application Form",
                  "Compliance Declaration" >> ],
    [ name |-> "Employment HR Contracts", docs |-> << "Employment Contract" >> ],
    [ name |-> "Commercial Agreements", docs |-> << "Commercial Agreement" >> ],
    [ name |-> "Compliance Risk Policies", docs |-> << "Compliance Risk Policy" >> ] >>

\* Lines 150-153: the processes whose list holds the type, in map order.
ProcessesOf(dtype) ==
    MapSeq(LAMBDA e : e.name, SelectSeq(PROCESS_MAP, LAMBDA e : dtype \in Range(e.docs)))

RECURSIVE ProcessCandidates(_)
ProcessCandidates(types) ==
    IF types = << >> THEN << >>
    ELSE ProcessesOf(Head(types)) \o ProcessCandidates(Tail(types))

CountOf(x, s) == Len(SelectSeq(s, LAMBDA y : y = x))

\* Counter(s).most_common(1)[0][0]: the most frequent element, the one met
\* first among equals.
MostCommon(s) ==
    LET k == CHOOSE i \in DOMAIN s :
                 /\ \A j \in DOMAIN s : CountOf(s[j], s) <= CountOf(s[i], s)
                 /\ \A j \in 1..(i - 1) : CountOf(s[j], s) < CountOf(s[i], s)
    IN  s[k]

\* Variant of detect_process: without a candidate, the first process of the map.
Mut_detect_process(types) ==
    LET process_candidates == ProcessCandidates(types)
    IN  IF process_candidates # << >> THEN MostCommon(process_candidates)
        ELSE PROCESS_MAP[1].name

\* Lines 146-167: the process of the batch.
detect_process(types) ==
    LET process_candidates == ProcessCandidates(types)
    IN  IF process_candidates # << >> THEN MostCommon(process_candidates) ELSE "Unknown"

\* zip(filepaths, doc_types) ends with the shorter list.
ZipLen(a, b) == IF Len(a) < Len(b) THEN Len(a) ELSE Len(b)

\* summaries.get(filepath, "Summary not available")
SummaryOf(entries, path) ==
    IF \E k \in DOMAIN entries : entries[k].path = path
    THEN entries[CHOOSE k \in DOMAIN entries : entries[k].path = path].summary
    ELSE << "Summary not available" >>

\* [issue for issue in all_issues if issue.get("document_type") == doc_type]
IssuesOfType(issues_, dt) == SelectSeq(issues_, LAMBDA i : i.document_type = dt)
(***************************************************************************)
(* app/comments.py: insert_comments.  A paragraph of the saved document is *)
(* the paragraph of the file it came from (origin 0: inserted by the       *)
(* function), its text and the comments appended to it.                    *)
(***************************************************************************)
Paragraph(origin, text) == [ origin |-> origin, text |-> text, comments |-> << >> ]

\* doc.paragraphs of the file as it was opened: every paragraph, blank or not.
OpenedParagraphs(file) ==
    [ k \in DOMAIN file.paragraphs |-> Paragraph(k, file.paragraphs[k]) ]

\* Lines 18-21: three times a paragraph is inserted before doc.paragraphs[0],
\* which is the paragraph inserted the time before: the blank line comes to
\* stand first, the summary second, the heading third.
WithSummary(paras, summary_text_) ==
    IF summary_text_ = << >> THEN paras
    ELSE << Paragraph(0, << >>), Paragraph(0, summary_text_),
            Paragraph(0, << "=== Document Summary ===" >>) >> \o paras

\* Lines 25-28: int(issue["section"].split()[-1]) - 1, and -1 when the last
\* word of the section is no number.
ParaNum(issue) == IF issue.section.kind = "Paragraph" THEN issue.section.n - 1 ELSE -1

\* Lines 31-36: the text of the comment, its suggestion stripped and its
\* citations, which are left out of the text when there are none.
CommentOf(issue) == [ suggestion |-> Strip(issue.suggestion), law |-> issue.citations ]

\* Line 29: doc.paragraphs[para_num], or doc.paragraphs[-1]; the position
\* from 1, 0 when the index is out of range.
TargetOf(paras, issue) ==
    IF ParaNum(issue) >= 0
    THEN IF ParaNum(issue) + 1 <= Len(paras) THEN ParaNum(issue) + 1 ELSE 0
    ELSE Len(paras)

\* Lines 24-40: the loop over the issues, from issue k on.
RECURSIVE AddComments(_, _, _)
AddComments(paras, issues_, k) ==
    IF k > Len(issues_) THEN [ raised |-> FALSE, paragraphs |-> paras ]
    ELSE LET t == TargetOf(paras, issues_[k])
         IN  IF t = 0 THEN [ raised |-> TRUE, paragraphs |-> paras ]
             ELSE AddComments(
                      [ paras EXCEPT ![t].comments = Append(@, CommentOf(issues_[k])) ],
                      issues_, k + 1)

\* insert_comments: Document(doc_path) raises on a file that cannot be read,
\* doc.paragraphs[0] on a document without a paragraph; otherwise the
\* document with the summary and the comments is saved.
insert_comments(file, issues_, summary_text_) ==
    IF ~file.readable THEN [ raised |-> TRUE, paragraphs |-> << >> ]
    ELSE IF file.paragraphs = << >>
    THEN IF summary_text_ # << >> \/ issues_ # << >>
         THEN [ raised |-> TRUE, paragraphs |-> << >> ]
         ELSE [ raised |-> FALSE, paragraphs |-> << >> ]
    ELSE AddComments(WithSummary(OpenedParagraphs(file), summary_text_), issues_, 1)
(***************************************************************************)
(* The reconciler as a state machine: one call of verify_checklist.        *)
(***************************************************************************)
\* Inputs of the reconciler: lists over a pool of detected types, the process
\* names main() can pass (a key of the map, or "Unknown").
TypePool == { "Articles of Association", "Board Resolution", "Employment Contract", "Unknown" }

ProcessPool == DOMAIN ADGM_CHECKLIST \cup { "Unknown" }

IssuePool == { [ document_type |-> t ] : t \in TypePool }

InitChecklist ==
    /\ pc = "checklist"
    /\ found_types \in SeqsUpTo(TypePool, MaxFound)
    /\ process \in ProcessPool
    /\ issues \in SeqsUpTo(IssuePool, MaxIssues)
    /\ hash_seed \in 1..MaxHashSeed
    /\ missing = NoResult
    /\ problematic = NoResult
    /\ ParserIdle
    /\ RulesIdle
    /\ ComposerIdle
    /\ RerunIdle
    /\ BatchIdle
    /\ CommentsIdle

VerifyChecklist ==
    /\ pc = "checklist"
    /\ LET r == verify_checklist(found_types, process, issues, hash_seed)
       IN  /\ missing' = r.missing
           /\ problematic' = r.problematic
    /\ pc' = "checklist_done"
    /\ UNCHANGED <<found_types, process, issues, hash_seed, parser_vars, rules_vars, composer_vars, rerun_vars, batch_vars, comments_vars>>

NextChecklist == VerifyChecklist

SpecChecklist == InitChecklist /\ [][NextChecklist]_vars

(***************************************************************************)
(* The classifier as a state machine: one call of detect_doc_type.         *)
(***************************************************************************)
\* A paragraph that is one occurrence of an alternative of a pattern.
Instance(alt) == [ j \in DOMAIN alt |-> IF alt[j] = "\\d+" THEN "5" ELSE alt[j] ]

\* One occurrence of every pattern of rule k: of its first alternative.
InstancesOf(k) ==
    { Instance(TYPE_RULES[k].patterns[p].alts[1]) : p \in DOMAIN TYPE_RULES[k].patterns }

ReadableDoc(ps, rs) == [ readable |-> TRUE, paragraphs |-> ps, rows |-> rs ]

UnreadableDoc == [ readable |-> FALSE, paragraphs |-> << >>, rows |-> << >> ]

\* Documents of paragraphs and table rows of the pools.
CuratedDocs ==
    { ReadableDoc(ps, rs) : ps \in SeqsUpTo(ParaPool, MaxParas), rs \in SeqsUpTo(RowPool, MaxRows) }

\* Documents whose paragraphs are all occurrences of patterns of one type.
SingleTypeDocs ==
    UNION { { ReadableDoc(ps, << >>) : ps \in SeqsUpTo(InstancesOf(k), MaxInstances) } :
              k \in DOMAIN TYPE_RULES }

DocPool == CuratedDocs \cup SingleTypeDocs \cup { UnreadableDoc }

LlmEnvs ==
    { LlmEnv(FALSE, FALSE, << >>), LlmEnv(TRUE, TRUE, << >>) }
    \cup { LlmEnv(TRUE, FALSE, parts) : parts \in SeqsUpTo(PartPool, MaxParts) }

InitClassify ==
    /\ pc = "detect"
    /\ doc \in DocPool
    /\ api_key \in BOOLEAN
    /\ type_scores = << >>
    /\ detected = NoResult
    /\ n_scored = 0
    /\ n_clients = 0
    /\ n_asks = 0
    /\ response = NoResult
    /\ raised = FALSE
    /\ ChecklistIdle
    /\ ComposerIdle
    /\ RerunIdle
    /\ BatchIdle
    /\ CommentsIdle
    /\ RulesIdle

CombinedText(file) == extract_document_content(file).combined_text

\* The environment of a call that does not reach the generative service.
NoEnv == LlmEnv(FALSE, FALSE, << >>)

Returns(r) ==
    /\ detected' = r.detected
    /\ n_scored' = r.n_scored
    /\ n_clients' = r.n_clients
    /\ n_asks' = r.n_asks
    /\ response' = r.response
    /\ raised' = r.raised
    /\ pc' = "detect_done"
    /\ UNCHANGED <<doc, api_key, type_scores, checklist_vars, rules_vars, composer_vars, rerun_vars, batch_vars, comments_vars>>

\* The text is empty: the call returns at the emptiness test.
DetectEmpty ==
    /\ pc = "detect"
    /\ CombinedText(doc) = << >>
    /\ Returns(detect_doc_type(doc, NoEnv))

\* The text is not empty: every pattern of every rule is counted.
ScoreText ==
    /\ pc = "detect"
    /\ CombinedText(doc) # << >>
    /\ type_scores' = TypeScores(CombinedText(doc))
    /\ n_scored' = NumPatterns
    /\ pc' = "scored"
    /\ UNCHANGED <<doc, api_key, detected, n_clients, n_asks, response, raised, checklist_vars, rules_vars, composer_vars, rerun_vars, batch_vars, comments_vars>>

\* Some type has a score: the call returns the best scoring type.
ReturnBest ==
    /\ pc = "scored"
    /\ type_scores # << >>
    /\ Returns(ClassifyScored(type_scores, NoEnv))

\* No type has a score: the call goes through the generative fallback.
Fallback ==
    /\ pc = "scored"
    /\ type_scores = << >>
    /\ \E env \in LlmEnvs :
           /\ env.api_key = api_key
           /\ Returns(ClassifyScored(type_scores, env))

NextClassify == DetectEmpty \/ ScoreText \/ ReturnBest \/ Fallback

SpecClassify == InitClassify /\ [][NextClassify]_vars

(***************************************************************************)
(* The rule engine as a state machine: one call of red_flags, one step per *)
(* check family.                                                           *)
(***************************************************************************)
\* The documents red_flags reads: it looks at the paragraphs only.
RuleDocs ==
    { ReadableDoc(ps, << >>) : ps \in SeqsUpTo(RuleParaPool, MaxTexts) } \cup { UnreadableDoc }

RuleTypePool ==
    { "Articles of Association", "Memorandum of Association", "Board Resolution",
      "Shareholder Resolution", "UBO Declaration", "Employment Contract",
      "Commercial Agreement", "Unknown" }

\* The queries whose answer may hold a document that is not a string: none,
\* the summary of the requirements, the context of the first issue, the first
\* query after an issue was appended.
BadQueryPool == { 0, 1, 2, 6 }

\* An empty or absent database answers every query with the empty list.
RagEnvs ==
    { RagEnv(FALSE, << >>, 0) }
    \cup { RagEnv(TRUE, ps, b) : ps \in SeqsUpTo(PassagePool, MaxPassages), b \in BadQueryPool }

\* The module builds its client when it is imported, which takes an API key.
RuleLlmEnvs ==
    { LlmEnv(TRUE, TRUE, << >>), LlmEnv(TRUE, FALSE, << << "Add", " ", "clause" >> >>) }

\* The hash seeds to tell apart: the seed orders the set of the merged
\* passages, which has an order to choose when two passages differ.
SeedsFor(passages) == IF Cardinality(Range(passages)) > 1 THEN 1..MaxHashSeed ELSE { 1 }

\* verify_checklist is not running; the hash seed is that of the interpreter.
ChecklistNotCalled ==
    /\ found_types = << >>
    /\ process = "Unknown"
    /\ issues = << >>
    /\ missing = NoResult
    /\ problematic = NoResult

InitRules ==
    /\ pc = "red_flags"
    /\ doc \in RuleDocs
    /\ doc_type \in RuleTypePool
    /\ rag_env \in RagEnvs
    /\ llm_env \in RuleLlmEnvs
    /\ collected = << >>
    /\ contexts = << >>
    /\ n_queries = 0
    /\ caught = "none"
    /\ result = NoResult
    /\ DetectIdle
    /\ ChecklistNotCalled
    /\ hash_seed \in SeedsFor(rag_env.passages)
    /\ ComposerIdle
    /\ RerunIdle
    /\ BatchIdle
    /\ CommentsIdle

Here == RunState(collected, contexts, n_queries, "none")

\* red_flags returns the list r.
ReturnFlags(st, r) ==
    /\ collected' = st.issues
    /\ contexts' = st.contexts
    /\ n_queries' = st.queries
    /\ caught' = st.exc
    /\ result' = r
    /\ pc' = "red_flags_done"

\* A family has run from the state Here to st: an exception enters the
\* handler, which returns; otherwise the call goes on at next.
Family(st, next) ==
    /\ IF st.exc # "none"
       THEN ReturnFlags(st, ExceptResult(st.issues, doc_type, st.exc))
       ELSE IF next = "red_flags_done"
       THEN ReturnFlags(st, st.issues)
       ELSE /\ collected' = st.issues
            /\ contexts' = st.contexts
            /\ n_queries' = st.queries
            /\ pc' = next
            /\ UNCHANGED <<caught, result>>
    /\ UNCHANGED <<doc, doc_type, rag_env, llm_env, checklist_vars, composer_vars, rerun_vars, batch_vars, comments_vars, api_key, type_scores,
                   detected, n_scored, n_clients, n_asks, response, raised>>

\* Lines 80-94: Document(doc_path) raises on a file that cannot be read; a
\* document without a non-blank paragraph is answered at once.
OpenDocument ==
    /\ pc = "red_flags"
    /\ IF ~doc.readable
       THEN Family(RunState(<< >>, << >>, 0, "PackageNotFoundError"), "requirements")
       ELSE IF Texts(doc) = << >>
       THEN /\ ReturnFlags(Here, EmptyResult(doc_type))
            /\ UNCHANGED <<doc, doc_type, rag_env, llm_env, checklist_vars, composer_vars, rerun_vars, batch_vars, comments_vars, api_key, type_scores,
                           detected, n_scored, n_clients, n_asks, response, raised>>
       ELSE Family(Here, "requirements")

CheckRequirements ==
    /\ pc = "requirements"
    /\ Family(RequirementFamily(Here, doc_type, Texts(doc), rag_env, llm_env), "jurisdiction")

CheckJurisdiction ==
    /\ pc = "jurisdiction"
    /\ Family(JurisdictionCheck(Here, doc_type, Texts(doc), rag_env, llm_env), "ubo")

CheckUbo ==
    /\ pc = "ubo"
    /\ Family(UboChecks(Here, doc_type, Texts(doc), rag_env, llm_env), "employment")

CheckEmployment ==
    /\ pc = "employment"
    /\ Family(EmploymentChecks(Here, doc_type, Texts(doc), rag_env, llm_env), "signature")

CheckSignature ==
    /\ pc = "signature"
    /\ Family(SignatureCheck(Here, doc_type, Texts(doc), rag_env, llm_env), "red_flags_done")

NextRules ==
    \/ OpenDocument
    \/ CheckRequirements
    \/ CheckJurisdiction
    \/ CheckUbo
    \/ CheckEmployment
    \/ CheckSignature

SpecRules == InitRules /\ [][NextRules]_vars

(***************************************************************************)
(* One call of get_rag_powered_suggestion (app/rules.py).                  *)
(***************************************************************************)
\* Prompts and contexts as red_flags builds them, with blanks at the ends
\* for str.strip() to remove.
PromptPool ==
    { << >>,
      << "Missing signature block" >>,
      << " ", "Document missing:", "date", "\n" >> }

ContextPool == { << >>, << "Documents must be properly executed with signatures" >> }

ComposerTypePool == { "Board Resolution", "Unknown" }

\* Text parts of a reply: a sentence, a sentence between blanks, a blank, and
\* a text that begins like the placeholder of the client.
ReplyPool ==
    { << "Add", " ", "clause" >>,
      << "\n", "Add", " ", "clause", " " >>,
      << " " >>,
      << "[No", " ", "response", "]" >> }

\* The retrieval database: a document that is not a string in the answer to
\* one of the three queries of get_rag_enhanced_suggestion, or in none.
ComposerRagEnvs ==
    { RagEnv(FALSE, << >>, 0) }
    \cup { RagEnv(TRUE, p, b) : p \in SeqsUpTo(PassagePool, MaxPassages), b \in 0..3 }

\* The generative service: generate_content fails, or answers with parts.
ComposerLlmEnvs ==
    { LlmEnv(TRUE, TRUE, << >>) }
    \cup { LlmEnv(TRUE, FALSE, parts) : parts \in SeqsUpTo(ReplyPool, MaxParts) }

InitComposer ==
    /\ pc = "get_rag_powered_suggestion"
    /\ prompt \in PromptPool
    /\ context \in ContextPool
    /\ suggestion = NoResult
    /\ doc_type \in ComposerTypePool
    /\ rag_env \in ComposerRagEnvs
    /\ llm_env \in ComposerLlmEnvs
    /\ collected = << >>
    /\ contexts = << >>
    /\ n_queries = 0
    /\ caught = "none"
    /\ result = NoResult
    /\ ParserIdle
    /\ ChecklistIdle
    /\ RerunIdle
    /\ BatchIdle
    /\ CommentsIdle

\* The call: the three queries of get_rag_enhanced_suggestion, gemini.ask,
\* and the return of the reply, the fallback sentence or the apology.
Compose ==
    /\ pc = "get_rag_powered_suggestion"
    /\ suggestion' = get_rag_powered_suggestion(prompt, doc_type, context, rag_env, llm_env, 0)
    /\ n_queries' = 3
    /\ pc' = "suggested"
    /\ UNCHANGED <<prompt, context, doc_type, rag_env, llm_env, collected, contexts, caught, result,
                   checklist_vars, parser_vars, rerun_vars, batch_vars, comments_vars>>

NextComposer == Compose

SpecComposer == InitComposer /\ [][NextComposer]_vars

(***************************************************************************)
(* red_flags called twice on the same document and type, the retrieval     *)
(* database and the generative service answering as functions of their     *)
(* arguments.  The second call runs in the same interpreter or in a new    *)
(* one, whose hash seed is drawn afresh.                                   *)
(***************************************************************************)
MaxMerged == 2

RerunDocs ==
    { ReadableDoc(ps, << >>) :
        ps \in SeqsUpTo({ << "Board", "Resolution" >>, << "Signed", "by", "the", "witness" >> }, MaxTexts) }

RerunTypePool == { "Board Resolution", "Unknown" }

RerunRagEnvs ==
    { RagEnv(FALSE, << >>, 0) }
    \cup { RagEnv(TRUE, ps, b) : ps \in SeqsUpTo(PassagePool, MaxMerged), b \in { 0, 2 } }

RerunLlmEnvs ==
    { LlmEnv(TRUE, TRUE, << >>), LlmEnv(TRUE, FALSE, << << "Add", " ", "clause" >> >>), QuotingLlmEnv }

InitRerun ==
    /\ pc = "red_flags"
    /\ doc \in RerunDocs
    /\ doc_type \in RerunTypePool
    /\ rag_env \in RerunRagEnvs
    /\ llm_env \in RerunLlmEnvs
    /\ collected = << >>
    /\ contexts = << >>
    /\ n_queries = 0
    /\ caught = "none"
    /\ result = NoResult
    /\ previous = NoResult
    /\ runs_left = 1
    /\ hash_seed \in 1..MaxHashSeed
    /\ DetectIdle
    /\ ChecklistNotCalled
    /\ ComposerIdle
    /\ BatchIdle
    /\ CommentsIdle

\* The caller keeps the returned list and calls red_flags again with the same
\* arguments.
RunAgain ==
    /\ pc = "red_flags_done"
    /\ runs_left > 0
    /\ previous' = result
    /\ runs_left' = runs_left - 1
    /\ hash_seed' \in 1..MaxHashSeed
    /\ collected' = << >>
    /\ contexts' = << >>
    /\ n_queries' = 0
    /\ caught' = "none"
    /\ result' = NoResult
    /\ pc' = "red_flags"
    /\ UNCHANGED <<doc, doc_type, rag_env, llm_env, found_types, process, issues, missing, problematic,
                   api_key, type_scores, detected, n_scored, n_clients, n_asks, response, raised,
                   composer_vars, batch_vars, comments_vars>>

NextRerun == NextRules \/ RunAgain

SpecRerun == InitRerun /\ [][NextRerun]_vars

(***************************************************************************)
(* main (app/ui.py): one run over a batch of uploaded files.  A file is a  *)
(* document and the step of its loop iteration at which an exception       *)
(* reaches the handler of the loop ("none": at no step).  The temporary    *)
(* path of a file is its position in the upload.                           *)
(***************************************************************************)
\* The steps that can raise: the write of the temporary file; detect_doc_type,
\* whose print calls of the path and of the result stand outside a try
\* (parser.py lines 188-194) and raise when the console cannot encode the
\* file name or is closed; summarize_document and red_flags, which print
\* the path the same way (summary.py lines 43 and 95, rules.py line 78).
FaultPool == { "none", "save", "detect", "summary", "red_flags" }

BatchDocs ==
    { ReadableDoc(<< << "Board", "Resolution" >> >>, << >>),
      ReadableDoc(<< << "Board", "Resolution" >>, << "Signed", "by", "the", "witness" >> >>, << >>),
      ReadableDoc(<< << "Dubai", "Courts" >> >>, << >>),
      UnreadableDoc }

\* An exception that reaches the handler of the loop does not depend on the
\* text of the document: the files with such a fault hold one document.
FilePool ==
    { [ doc |-> d, fault |-> "none" ] : d \in BatchDocs }
    \cup { [ doc |-> ReadableDoc(<< << "Board", "Resolution" >> >>, << >>), fault |-> f ] :
               f \in FaultPool \ { "none" } }

\* The retrieval database is absent, or populated with an answer to the
\* second query of a call that holds a document that is not a string.
BatchRagEnvs == { RagEnv(FALSE, << >>, 0), RagEnv(TRUE, << << "signature", "and", "date", "required" >> >>, 2) }

\* The generative service fails or names no type.
BatchLlmEnvs == { LlmEnv(TRUE, TRUE, << >>), LlmEnv(TRUE, FALSE, << << "Other" >> >>) }

InitBatch ==
    /\ pc = "main"
    /\ uploaded \in SeqsUpTo(FilePool, MaxFiles)
    /\ rag_env \in BatchRagEnvs
    /\ llm_env \in BatchLlmEnvs
    /\ hash_seed \in 1..MaxHashSeed
    /\ file_index = 1
    /\ filepaths = << >>
    /\ doc_types = << >>
    /\ all_issues = << >>
    /\ summaries = << >>
    /\ n_errors = 0
    /\ detected_process = "Unknown"
    /\ report = NoResult
    /\ ChecklistNotCalled
    /\ ParserIdle
    /\ doc_type = "Unknown"
    /\ collected = << >>
    /\ contexts = << >>
    /\ n_queries = 0
    /\ caught = "none"
    /\ result = NoResult
    /\ ComposerIdle
    /\ RerunIdle
    /\ CommentsIdle
    /\ shown = << >>
    /\ reviewed = << >>

BatchUnchanged ==
    UNCHANGED <<uploaded, rag_env, llm_env, hash_seed, parser_vars, doc_type, collected, contexts,
                n_queries, caught, result, composer_vars, rerun_vars, comments_vars>>

ChecklistUnchanged == UNCHANGED <<found_types, process, issues, missing, problematic>>

\* Lines 40-42: nothing was uploaded.
Start ==
    /\ pc = "main"
    /\ pc' = IF uploaded = << >> THEN "returned" ELSE "loop"
    /\ UNCHANGED <<file_index, filepaths, doc_types, all_issues, summaries, n_errors,
                   detected_process, report, shown, reviewed>>
    /\ ChecklistUnchanged
    /\ BatchUnchanged

\* Lines 64-101: one iteration of the loop, which goes on at after_fault when
\* a step raised.  The lists grow up to the step that raised.
Iteration(after_fault) ==
    /\ pc = "loop"
    /\ file_index <= Len(uploaded)
    /\ LET f == uploaded[file_index]
           temp_path == file_index
           detected_type == detect_doc_type(f.doc, llm_env).detected
           summary == summarize_document(f.doc, detected_type, llm_env)
           saved == f.fault # "save"
           typed == saved /\ f.fault # "detect"
           summarized == typed /\ f.fault # "summary"
           evaluated == summarized /\ f.fault # "red_flags"
       IN  /\ filepaths' = IF saved THEN Append(filepaths, temp_path) ELSE filepaths
           /\ doc_types' = IF typed THEN Append(doc_types, detected_type) ELSE doc_types
           /\ summaries' = IF summarized
                           THEN Append(summaries, [ path |-> temp_path, summary |-> summary ])
                           ELSE summaries
           /\ all_issues' = IF evaluated
                            THEN all_issues \o red_flags(f.doc, detected_type, rag_env, llm_env)
                            ELSE all_issues
           /\ n_errors' = IF f.fault = "none" THEN n_errors ELSE n_errors + 1
           /\ pc' = IF f.fault = "none" THEN "loop" ELSE after_fault
    /\ file_index' = file_index + 1
    /\ UNCHANGED <<detected_process, report, shown, reviewed>>
    /\ ChecklistUnchanged
    /\ BatchUnchanged

\* Variant of ProcessFile: an exception of a step ends main.
MutProcessFile == Iteration("returned")

\* The handler of the loop reports the exception and the loop goes on with
\* the next file.
ProcessFile == Iteration("loop")

\* Lines 107-109: the loop is over; main returns when no file was saved.
EndLoop ==
    /\ pc = "loop"
    /\ file_index > Len(uploaded)
    /\ pc' = IF filepaths = << >> THEN "returned" ELSE "summaries"
    /\ UNCHANGED <<file_index, filepaths, doc_types, all_issues, summaries, n_errors,
                   detected_process, report, shown, reviewed>>
    /\ ChecklistUnchanged
    /\ BatchUnchanged

\* Lines 111-141: the section of the document summaries, one entry for every
\* pair of zip(filepaths, doc_types).
DisplaySummaries ==
    /\ pc = "summaries"
    /\ shown' = [ i \in 1..ZipLen(filepaths, doc_types) |->
                    [ path |-> filepaths[i],
                      doc_type |-> doc_types[i],
                      summary |-> SummaryOf(summaries, filepaths[i]),
                      issues |-> IssuesOfType(all_issues, doc_types[i]) ] ]
    /\ pc' = "process_detection"
    /\ UNCHANGED <<file_index, filepaths, doc_types, all_issues, summaries, n_errors,
                   detected_process, report, reviewed>>
    /\ ChecklistUnchanged
    /\ BatchUnchanged

\* Lines 146-167.
DetectProcess ==
    /\ pc = "process_detection"
    /\ detected_process' = detect_process(doc_types)
    /\ pc' = "checklist"
    /\ UNCHANGED <<file_index, filepaths, doc_types, all_issues, summaries, n_errors, report, shown, reviewed>>
    /\ ChecklistUnchanged
    /\ BatchUnchanged

\* Line 174: verify_checklist(doc_types, detected_process, all_issues).
BatchChecklist ==
    /\ pc = "checklist"
    /\ found_types' = doc_types
    /\ process' = detected_process
    /\ issues' = all_issues
    /\ LET r == verify_checklist(doc_types, detected_process, all_issues, hash_seed)
       IN  /\ missing' = r.missing
           /\ problematic' = r.problematic
    /\ pc' = "report"
    /\ UNCHANGED <<file_index, filepaths, doc_types, all_issues, summaries, n_errors,
                   detected_process, report, shown, reviewed>>
    /\ BatchUnchanged

\* Lines 243-271: structured_output.
Report ==
    /\ pc = "report"
    /\ report' = [ process |-> detected_process,
                   documents_uploaded |-> Len(doc_types),
                   missing_documents |-> missing,
                   problematic_documents |-> problematic,
                   total_issues |-> Len(all_issues) ]
    /\ pc' = "reported"
    /\ UNCHANGED <<file_index, filepaths, doc_types, all_issues, summaries, n_errors, detected_process, shown, reviewed>>
    /\ ChecklistUnchanged
    /\ BatchUnchanged

\* Lines 288-314: the section of the reviewed documents; an exception of
\* insert_comments is reported and the loop goes on.
ReviewedDocuments ==
    /\ pc = "reported"
    /\ reviewed' = [ i \in 1..ZipLen(filepaths, doc_types) |->
                       LET doc_issues == IssuesOfType(all_issues, doc_types[i])
                       IN  [ path |-> filepaths[i],
                             issues |-> doc_issues,
                             saved |-> insert_comments(uploaded[filepaths[i]].doc, doc_issues,
                                                       SummaryOf(summaries, filepaths[i])) ] ]
    /\ pc' = "reviewed"
    /\ UNCHANGED <<file_index, filepaths, doc_types, all_issues, summaries, n_errors,
                   detected_process, report, shown>>
    /\ ChecklistUnchanged
    /\ BatchUnchanged

NextBatch ==
    \/ Start
    \/ ProcessFile
    \/ EndLoop
    \/ DisplaySummaries
    \/ DetectProcess
    \/ BatchChecklist
    \/ Report
    \/ ReviewedDocuments

SpecBatch == InitBatch /\ [][NextBatch]_vars

(***************************************************************************)
(* The components that meet the type "Unknown": verify_checklist, red_flags *)
(* called with that type, and main.                                        *)
(***************************************************************************)
InitUnknownType == InitChecklist \/ (InitRules /\ doc_type = "Unknown") \/ InitBatch

NextUnknownType == NextChecklist \/ NextRules \/ NextBatch

SpecUnknownType == InitUnknownType /\ [][NextUnknownType]_vars
(***************************************************************************)
(* A document is evaluated by red_flags and the issues are written into it *)
(* by insert_comments, with or without a summary.                          *)
(***************************************************************************)
SummaryPool == { << >>, << "**Purpose**:", "Board Resolution", "**Note**: Automated summary unavailable" >> }

InitComments ==
    /\ pc = "evaluate"
    /\ doc \in RuleDocs
    /\ doc_type \in RuleTypePool
    /\ rag_env = RagEnv(FALSE, << >>, 0)
    /\ llm_env = LlmEnv(TRUE, FALSE, << << "Add", " ", "clause" >> >>)
    /\ summary_text \in SummaryPool
    /\ annotated = NoResult
    /\ collected = << >>
    /\ contexts = << >>
    /\ n_queries = 0
    /\ caught = "none"
    /\ result = NoResult
    /\ DetectIdle
    /\ ChecklistNotCalled
    /\ hash_seed = 1
    /\ ComposerIdle
    /\ RerunIdle
    /\ BatchIdle

CommentsUnchanged ==
    UNCHANGED <<doc, doc_type, rag_env, llm_env, summary_text, collected, contexts, n_queries, caught,
                api_key, type_scores, detected, n_scored, n_clients, n_asks, response, raised,
                checklist_vars, composer_vars, rerun_vars, batch_vars>>

\* issues = red_flags(doc_path, doc_type)
Evaluate ==
    /\ pc = "evaluate"
    /\ result' = red_flags(doc, doc_type, rag_env, llm_env)
    /\ pc' = "annotate"
    /\ UNCHANGED annotated
    /\ CommentsUnchanged

\* insert_comments(doc_path, issues, summary_text)
Annotate ==
    /\ pc = "annotate"
    /\ annotated' = insert_comments(doc, result, summary_text)
    /\ pc' = "commented"
    /\ UNCHANGED result
    /\ CommentsUnchanged

NextComments == Evaluate \/ Annotate

SpecComments == InitComments /\ [][NextComments]_vars

(***************************************************************************)
(* The components together: a behaviour is one call of one of them.  *)
(***************************************************************************)
Init == InitChecklist \/ InitClassify \/ InitRules \/ InitComposer \/ InitRerun \/ InitBatch \/ InitComments

Next == NextChecklist \/ NextClassify \/ NextRules \/ NextComposer \/ RunAgain \/ NextBatch \/ NextComments

Spec == Init /\ [][Next]_vars
(***************************************************************************)
(* Properties of the checklist reconciler.                                 *)
(***************************************************************************)
ChecklistDone == pc = "checklist_done"

NoDuplicates(s) == \A i, j \in DOMAIN s : s[i] = s[j] => i = j

IssueTypes(iss) == { iss[k].document_type : k \in DOMAIN iss }

FirstIssueOf(iss, t) == CHOOSE k \in DOMAIN iss :
    /\ iss[k].document_type = t
    /\ \A j \in 1..(k - 1) : iss[j].document_type # t

\* C1: for every found_types, process and issues list, no document type is in
\* both results of verify_checklist: missing and problematic are disjoint.
C1_MissingProblematicDisjoint ==
    ChecklistDone => Range(missing) \cap Range(problematic) = {}

C1_Witness ==
    /\ ChecklistDone
    /\ missing # << >>
    /\ problematic # << >>
    /\ \E k \in DOMAIN issues : issues[k].document_type \in Range(missing)

\* C2: for a process of the map with required set R and found set F, missing is
\* R minus F as a set and holds no duplicate, so missing united with R \cap F is
\* R; with F empty missing is all of R and problematic is empty.
C2_MissingIsRequiredMinusFound ==
    (ChecklistDone /\ process \in DOMAIN ADGM_CHECKLIST) =>
        LET R == Range(ADGM_CHECKLIST[process])
            F == Range(found_types)
        IN  /\ Range(missing) = R \ F
            /\ NoDuplicates(missing)
            /\ Len(missing) = Cardinality(R \ F)
            /\ Range(missing) \cup (R \cap F) = R
            /\ (F = {} => Range(missing) = R /\ problematic = << >>)

C2_Witness ==
    /\ ChecklistDone
    /\ process = "Company Incorporation"
    /\ Range(found_types) = { "Articles of Association", "Board Resolution" }
    /\ Len(missing) = 6

\* C3: for a process of the map, problematic holds exactly the types that are
\* required, found and the document_type of at least one issue, each once,
\* in the order of their first issue in issues.
C3_ProblematicExact ==
    (ChecklistDone /\ process \in DOMAIN ADGM_CHECKLIST) =>
        LET R == Range(ADGM_CHECKLIST[process])
            F == Range(found_types)
        IN  /\ Range(problematic) = (R \cap F) \cap IssueTypes(issues)
            /\ NoDuplicates(problematic)
            /\ \A i, j \in DOMAIN problematic :
                   i < j => FirstIssueOf(issues, problematic[i])
                              < FirstIssueOf(issues, problematic[j])

C3_Witness ==
    /\ ChecklistDone
    /\ Len(issues) >= 2
    /\ Len(problematic) = 2
    /\ problematic[1] = "Board Resolution"

\* C4: when the process is not a key of the process map, the result is
\* (empty, empty) for every found_types and every issues list.
C4_UnknownProcessEmpty ==
    (ChecklistDone /\ process \notin DOMAIN ADGM_CHECKLIST) =>
        (missing = << >> /\ problematic = << >>)

C4_Witness ==
    /\ ChecklistDone
    /\ process \notin DOMAIN ADGM_CHECKLIST
    /\ found_types # << >>
    /\ issues # << >>
    /\ missing = << >>
(***************************************************************************)
(* Properties of the classifier.                                           *)
(***************************************************************************)
DetectDone == pc = "detect_done"

\* The score of every type on the text of the document under analysis.
ScoresOf(file) ==
    LET folded == FoldText(CombinedText(file))
        ScoreOf(rule) == SumCounts(rule.patterns, 1, folded)
    IN  MapSeq(ScoreOf, FoldedRules)

NoMatch(file) == LET sc == ScoresOf(file) IN \A k \in DOMAIN sc : sc[k] = 0

\* C5: when some type has a score above 0, detect_doc_type returns the type
\* with the highest total match count, and among the types that share the
\* highest count the one declared first in TYPE_RULES.
C5_BestScoreFirstDeclared ==
    DetectDone =>
        LET sc == ScoresOf(doc)
        IN  (\E k \in DOMAIN sc : sc[k] > 0) =>
                \E k \in DOMAIN sc :
                    /\ detected = TYPE_RULES[k].name
                    /\ \A j \in DOMAIN sc : sc[j] <= sc[k]
                    /\ \A j \in 1..(k - 1) : sc[j] < sc[k]

C5_Witness ==
    /\ DetectDone
    /\ detected = "Licensing Regulatory Filing"
    /\ Len(doc.paragraphs) = 2
    /\ LET sc == ScoresOf(doc)
       IN  /\ sc[TypeIndex("Licensing Regulatory Filing")] = 2
           /\ sc[TypeIndex("Renewal Application Form")] = 2
           /\ sc[TypeIndex("Employment Contract")] = 1

\* C6 as stated: for every text with zero pattern matches the generative
\* capability is called exactly once per classification.
C6_FallbackCalledExactlyOnce ==
    (DetectDone /\ NoMatch(doc)) => n_asks = 1

\* C6, amended: for every non-empty text with zero pattern matches the pattern
\* stage yields no type and the fallback is entered exactly once; it tries to
\* build one client, calls the generative capability once when the client is
\* built, and not at all (result Unknown) when no API key is configured.
C6_FallbackEnteredOnce ==
    (DetectDone /\ CombinedText(doc) # << >> /\ NoMatch(doc)) =>
        /\ type_scores = << >>
        /\ n_clients = 1
        /\ n_asks = (IF api_key THEN 1 ELSE 0)
        /\ (~api_key => detected = "Unknown")

C6_Witness ==
    /\ DetectDone
    /\ CombinedText(doc) # << >>
    /\ NoMatch(doc)
    /\ api_key
    /\ n_asks = 1
    /\ detected = "Unknown"

\* C7: when extraction yields no text (blank content, or a file that cannot be
\* opened), detect_doc_type returns Unknown at once: no pattern is counted, no
\* client is built and the generative capability is not called.
C7_EmptyTextUnknownAtOnce ==
    (DetectDone /\ CombinedText(doc) = << >>) =>
        /\ detected = "Unknown"
        /\ n_scored = 0
        /\ type_scores = << >>
        /\ n_clients = 0
        /\ n_asks = 0

C7_Witness ==
    /\ DetectDone
    /\ doc.readable
    /\ doc.paragraphs # << >>
    /\ CombinedText(doc) = << >>
    /\ detected = "Unknown"
    /\ api_key

\* C8: for every type t of TYPE_RULES, a text made only of occurrences of
\* patterns of t is classified as t.
C8_OwnPatternsClassifyAsType ==
    DetectDone =>
        \A k \in DOMAIN TYPE_RULES :
            (/\ doc.readable
             /\ doc.rows = << >>
             /\ doc.paragraphs # << >>
             /\ Range(doc.paragraphs) \subseteq InstancesOf(k))
            => detected = TYPE_RULES[k].name

\* C9: in the generative fallback the result is the first type, in the order
\* of TYPE_RULES, whose name occurs (case-insensitively) in the reply stripped
\* of blanks at its ends and of quotes; it is Unknown when no name occurs, when
\* the call fails or when the client cannot be built; no exception leaves
\* detect_doc_type.
C9_FallbackFirstNamedType ==
    DetectDone =>
        /\ ~raised
        /\ n_clients = 1 =>
              IF n_asks = 0 THEN detected = "Unknown"
              ELSE LET reply == RemoveQuotes(Strip(response))
                       named == { k \in DOMAIN TYPE_RULES : NameIn(k, reply) }
                   IN  detected = IF named = {} THEN "Unknown"
                                  ELSE TYPE_RULES[CHOOSE k \in named : \A j \in named : k <= j].name

C9_Witness ==
    /\ DetectDone
    /\ n_asks = 1
    /\ response = << "Employment", " ", "Contract", " ", "Board", " ", "Resolution" >>
    /\ detected = "Board Resolution"


(***************************************************************************)
(* Properties of the rule engine.                                          *)
(***************************************************************************)
FlagsDone == pc = "red_flags_done"

\* C10: when the document cannot be opened or parsed, has no non-empty
\* paragraph, or a step of the evaluation raises after issues were collected,
\* red_flags returns a list of exactly one issue, of severity High, and no
\* issue collected before the failure is in the result.
C10_FailureYieldsOneHighIssue ==
    (FlagsDone /\ (~doc.readable \/ Texts(doc) = << >> \/ caught # "none")) =>
        /\ Len(result) = 1
        /\ result[1].severity = "High"
        /\ \A i \in DOMAIN collected : \A j \in DOMAIN result : result[j] # collected[i]

C10_Witness ==
    /\ FlagsDone
    /\ doc.readable
    /\ caught = "TypeError"
    /\ Len(collected) >= 1
    /\ Len(result) = 1
    /\ result[1].issue.text = "Error analyzing document:"

\* red_flags has returned the issues of the four check families: the document
\* was read, has a non-blank paragraph and no step raised.
NormalReturn == FlagsDone /\ caught = "none" /\ Texts(doc) # << >>

JurisdictionIssues ==
    SelectSeq(result, LAMBDA i :
        i.issue.text = "Jurisdiction not specific to ADGM or references UAE Federal law")

\* C11: red_flags emits a jurisdiction issue if and only if the type is one of
\* Articles of Association, Memorandum of Association, Board Resolution,
\* Shareholder Resolution and the text lacks the ADGM marker or holds an
\* external jurisdiction marker; there is then exactly one, of severity High,
\* with the fixed citation.
C11_JurisdictionIssueIff ==
    NormalReturn =>
        LET corporate == doc_type \in { "Articles of Association", "Memorandum of Association",
                                        "Board Resolution", "Shareholder Resolution" }
            has_adgm == Search(HasAdgmPattern, Flatten(Texts(doc)))
            has_external == \E p \in DOMAIN Texts(doc) :
                                Search(HasUaeFederalPattern, Texts(doc)[p])
        IN  IF corporate /\ (~has_adgm \/ has_external)
            THEN /\ Len(JurisdictionIssues) = 1
                 /\ JurisdictionIssues[1].severity = "High"
                 /\ JurisdictionIssues[1].citations = << "Companies Regulations 2020 s.6-12" >>
            ELSE JurisdictionIssues = << >>

C11_Witness ==
    /\ NormalReturn
    /\ doc_type = "Board Resolution"
    /\ doc.paragraphs = << << "governed", "by", "ADGM", "law" >>, << "Dubai", "Courts" >> >>
    /\ Len(JurisdictionIssues) = 1
    /\ JurisdictionIssues[1].severity = "High"

\* The issues of the result with the given issue text and argument.
IssuesNamed(text, arg) ==
    SelectSeq(result, LAMBDA i : i.issue.text = text /\ i.issue.arg = arg)

IssuesTitled(text) == SelectSeq(result, LAMBDA i : i.issue.text = text)

\* The fields of the list whose pattern the full text of the document lacks.
MissingFields(fields) ==
    SelectSeq(fields, LAMBDA f : ~Search(f.pattern, Flatten(Texts(doc))))

\* Every field of the list has one issue of the severity when the text lacks
\* it and none when the text holds it, and the family has no other issue.
FieldIssuesExact(fields, text, severity) ==
    /\ \A k \in DOMAIN fields :
           LET found == IssuesNamed(text, fields[k].name)
           IN  IF Search(fields[k].pattern, Flatten(Texts(doc)))
               THEN found = << >>
               ELSE Len(found) = 1 /\ found[1].severity = severity
    /\ Len(IssuesTitled(text)) = Len(MissingFields(fields))

\* C12: for a UBO Declaration red_flags emits exactly one High issue for each
\* of the five mandatory fields the text lacks and none for the others, and
\* for an Employment Contract the same with the six mandatory clauses and
\* severity Medium; a UBO Declaration that lacks the passport field only has
\* exactly one High issue, which names the passport.
C12_MandatoryFieldIssues ==
    NormalReturn =>
        /\ Len(required_fields) = 5
        /\ Len(employment_requirements) = 6
        /\ IF doc_type = "UBO Declaration"
           THEN FieldIssuesExact(required_fields, "Missing UBO field:", "High")
           ELSE IssuesTitled("Missing UBO field:") = << >>
        /\ IF doc_type = "Employment Contract"
           THEN FieldIssuesExact(employment_requirements, "Missing", "Medium")
           ELSE IssuesTitled("Missing") = << >>
        /\ (/\ doc_type = "UBO Declaration"
            /\ Len(MissingFields(required_fields)) = 1
            /\ MissingFields(required_fields)[1].name = "passport")
           => LET high == SelectSeq(result, LAMBDA i : i.severity = "High")
              IN  Len(high) = 1 /\ high[1].issue.arg = "passport"

C12_Witness ==
    /\ NormalReturn
    /\ doc_type = "UBO Declaration"
    /\ doc.paragraphs = << << "name", "birth", "nationality", "address" >> >>
    /\ Len(SelectSeq(result, LAMBDA i : i.severity = "High")) = 1
    /\ IssuesNamed("Missing UBO field:", "passport") # << >>

\* C13: on a readable document with a non-blank paragraph red_flags emits
\* exactly one signature issue when no paragraph matches a signature pattern
\* and none otherwise; the severity is Medium for an Employment Contract or a
\* Commercial Agreement and Low for every other type, Unknown included.
C13_SignatureIssueIff ==
    (NormalReturn /\ doc.readable) =>
        LET found == IssuesTitled("Missing signature block or execution clause")
            matched == \E t \in DOMAIN Texts(doc) : \E p \in DOMAIN signature_patterns :
                           Search(signature_patterns[p], Texts(doc)[t])
        IN  IF matched THEN found = << >>
            ELSE /\ Len(found) = 1
                 /\ found[1].severity =
                        IF doc_type \in { "Employment Contract", "Commercial Agreement" }
                        THEN "Medium" ELSE "Low"

C13_Witness ==
    /\ NormalReturn
    /\ doc_type = "Commercial Agreement"
    /\ doc.paragraphs = << << "Board", "Resolution" >> >>
    /\ Len(IssuesTitled("Missing signature block or execution clause")) = 1
    /\ result[Len(result)].severity = "Medium"

\* The summary the requirement family reads: the first five passages of the
\* answer, joined.
RetrievedSummary == JoinLines(FirstN(rag_env.passages, 5))

RequirementIssuesOf(name) ==
    IssuesNamed("Missing requirement identified by legal knowledge:", name)

\* C14: the retrieval-sourced family emits one Medium issue citing "ADGM Legal
\* Knowledge Base" for exactly those of the eight requirement names that
\* appear in the retrieved summary and whose pattern the full text lacks, and
\* no issue at all when retrieval yields no passages.
C14_RequirementIssuesExact ==
    NormalReturn =>
        /\ Len(requirement_patterns) = 8
        /\ \A k \in DOMAIN requirement_patterns :
               LET r == requirement_patterns[k]
                   found == RequirementIssuesOf(r.name)
               IN  IF /\ rag_env.passages # << >>
                      /\ NameInText(r.name, RetrievedSummary)
                      /\ ~Search(r.pattern, Flatten(Texts(doc)))
                   THEN /\ Len(found) = 1
                        /\ found[1].severity = "Medium"
                        /\ found[1].citations = << "ADGM Legal Knowledge Base" >>
                   ELSE found = << >>
        /\ rag_env.passages = << >>
               => IssuesTitled("Missing requirement identified by legal knowledge:") = << >>

\* The hard-coded context of the check that emitted the issue (lines 128,
\* 157, 185 and 210).
StaticContext(i) ==
    IF i.issue.text = "Jurisdiction not specific to ADGM or references UAE Federal law"
    THEN << "ADGM jurisdiction required for corporate documents" >>
    ELSE IF i.issue.text = "Missing UBO field:"
    THEN << "UBO declarations must include", i.issue.arg >>
    ELSE IF i.issue.text = "Missing"
    THEN << "Employment contracts must specify", i.issue.arg >>
    ELSE << "Documents must be properly executed with signatures" >>

\* The issues of the jurisdiction, UBO, employment and signature checks.
ContextChecked(i) ==
    i.issue.text # "Missing requirement identified by legal knowledge:"

\* C17: when the retrieval database answers the context query of a
\* jurisdiction, UBO, employment or signature check with the empty list, the
\* context red_flags hands to the suggestion composer is the hard-coded
\* sentence of the check, not the empty string.
C17_EmptyRetrievalStaticContext ==
    (NormalReturn /\ rag_env.available /\ rag_env.passages = << >>) =>
        \A k \in DOMAIN result :
            ContextChecked(result[k]) =>
                /\ contexts[k] # << >>
                /\ contexts[k] = StaticContext(result[k])

\* C18: a second call of red_flags on the same document type and text, with
\* the retrieval database and the generative service answering as functions
\* of their arguments, returns the list of the first call: the same issues in
\* the same order, every field equal, the suggestions included.
C18_RerunIdentical ==
    (FlagsDone /\ runs_left = 0) => result = previous

\* C22: every issue of every list red_flags returns, from the four check
\* families, for a document without a non-blank paragraph and from the
\* handler of the try block, has a severity among High, Medium and Low and
\* the doc_type argument as its document_type.
C22_SeverityAndTypeOfEveryIssue ==
    FlagsDone =>
        \A k \in DOMAIN result :
            /\ result[k].severity \in { "High", "Medium", "Low" }
            /\ result[k].document_type = doc_type

C22_Witness ==
    /\ FlagsDone
    /\ doc.readable
    /\ Texts(doc) = << >>
    /\ doc_type = "Employment Contract"
    /\ Len(result) = 1
    /\ result[1].severity = "High"
    /\ result[1].document_type = "Employment Contract"

\* The check family of an issue, by its text: 1 requirement gap, 2
\* jurisdiction, 3 UBO field or employment clause, 4 signature.
FamilyOf(i) ==
    CASE i.issue.text = "Missing requirement identified by legal knowledge:" -> 1
      [] i.issue.text = "Jurisdiction not specific to ADGM or references UAE Federal law" -> 2
      [] i.issue.text \in { "Missing UBO field:", "Missing" } -> 3
      [] i.issue.text = "Missing signature block or execution clause" -> 4
      [] OTHER -> 0

\* The position of the field or clause an issue names in its declared list.
FieldIndex(i) ==
    LET fields == IF i.issue.text = "Missing UBO field:"
                  THEN required_fields ELSE employment_requirements
    IN  CHOOSE k \in DOMAIN fields : fields[k].name = i.issue.arg

\* C23: in a list returned on the normal path the issues stand in the order
\* of the check families: requirement gaps, then the jurisdiction issue, then
\* the UBO fields or employment clauses in their declared order, and the
\* signature issue last.
C23_FamilyOrder ==
    NormalReturn =>
        /\ \A k \in DOMAIN result : FamilyOf(result[k]) \in 1..4
        /\ \A j, k \in DOMAIN result :
               j < k =>
                   /\ FamilyOf(result[j]) <= FamilyOf(result[k])
                   /\ (FamilyOf(result[j]) = 3 /\ FamilyOf(result[k]) = 3)
                          => FieldIndex(result[j]) < FieldIndex(result[k])
                   /\ FamilyOf(result[j]) \in { 2, 4 } => FamilyOf(result[j]) < FamilyOf(result[k])

C23_Witness ==
    /\ NormalReturn
    /\ doc_type = "UBO Declaration"
    /\ Len(result) >= 4
    /\ FamilyOf(result[1]) = 1
    /\ \E j \in DOMAIN result :
           /\ j + 1 \in DOMAIN result
           /\ FamilyOf(result[j]) = 3
           /\ FamilyOf(result[j + 1]) = 3
    /\ FamilyOf(result[Len(result)]) = 4

\* C25: when check_rag_database_status reports the database as unavailable,
\* a call of red_flags sends no query to the retrieval provider.
C25_NoQueryWhenUnavailable ==
    (FlagsDone /\ ~rag_env.available) => n_queries = 0

(***************************************************************************)
(* Claims about the suggestion composer.                                   *)
(***************************************************************************)
Suggested == pc = "suggested"

\* The fallback sentence of line 33.
FallbackSentence == << "Review", doc_type, "against ADGM requirements:" >> \o Strip(prompt)

\* The get_rag_enhanced_suggestion call of the composer raised.
RetrievalRaised == get_rag_enhanced_suggestion(rag_env, 0).raised

\* C15: get_rag_powered_suggestion never returns the empty string, whatever
\* the retrieval and the generative call do, and an empty reply or a
\* placeholder is replaced by the fallback sentence built from the document
\* type and the prompt.
C15_SuggestionNeverEmpty ==
    Suggested =>
        /\ suggestion # << >>
        /\ suggestion # NoResult
        /\ \A k \in DOMAIN suggestion : suggestion[k] # ""
        /\ (~RetrievalRaised /\ (GeminiAsk(llm_env) = << >> \/ StartsWithMarker(GeminiAsk(llm_env))))
               => suggestion = FallbackSentence

C15_Witness ==
    /\ Suggested
    /\ ~llm_env.fails
    /\ llm_env.parts = << << " " >> >>
    /\ ~RetrievalRaised
    /\ prompt = << " ", "Document missing:", "date", "\n" >>
    /\ suggestion = << "Review", doc_type, "against ADGM requirements:", "Document missing:", "date" >>

\* The apology of line 39, whatever error it embeds.
IsApology(s) ==
    /\ Len(s) = 3
    /\ s[1] = "Ensure compliance with ADGM laws. (Error:"
    /\ s[3] = ")"

\* C16: a transport failure of the generative call is caught and turned into
\* the fixed apology string that embeds the truncated error, and the composer
\* returns to its caller.
C16_TransportFailureYieldsApology ==
    (Suggested /\ ~RetrievalRaised /\ llm_env.fails) =>
        /\ suggestion # NoResult
        /\ IsApology(suggestion)

(***************************************************************************)
(* Claims about the type "Unknown" and about main.                         *)
(***************************************************************************)
TypeSpecificTexts ==
    { "Jurisdiction not specific to ADGM or references UAE Federal law",
      "Missing UBO field:", "Missing" }

\* verify_checklist has returned, called alone or from main.
ChecklistReturned == pc \in { "checklist_done", "report", "reported", "reviewed" }

\* C19: the type "Unknown" is accepted by red_flags and by verify_checklist:
\* red_flags on a readable document of that type returns a list of issues of
\* that type without a jurisdiction, UBO or employment issue, and enters its
\* handler only when a retrieval answer cannot be joined; "Unknown" is never
\* in missing or problematic, whatever the process; and a batch whose types
\* are all "Unknown" gets the process "Unknown" and an empty checklist result.
C19_UnknownTypeAccepted ==
    /\ (FlagsDone /\ doc_type = "Unknown" /\ doc.readable) =>
           /\ \A k \in DOMAIN result :
                  /\ result[k].document_type = "Unknown"
                  /\ result[k].issue.text \notin TypeSpecificTexts
           /\ caught # "none" => rag_env.bad_query # 0
    /\ \A k \in DOMAIN all_issues :
           all_issues[k].document_type = "Unknown"
               => all_issues[k].issue.text \notin TypeSpecificTexts
    /\ ChecklistReturned => "Unknown" \notin Range(missing) \cup Range(problematic)
    /\ (pc \in { "report", "reported", "reviewed" } /\ \A k \in DOMAIN doc_types : doc_types[k] = "Unknown") =>
           /\ detected_process = "Unknown"
           /\ missing = << >>
           /\ problematic = << >>

C19_Witness ==
    /\ pc = "reported"
    /\ doc_types = << "Unknown", "Unknown" >>
    /\ all_issues # << >>
    /\ report.process = "Unknown"
    /\ report.missing_documents = << >>
    /\ report.problematic_documents = << >>

\* The number of uploaded files whose iteration got past the steps in S.
Past(S) == Cardinality({ k \in DOMAIN uploaded : uploaded[k].fault \notin S })

\* A document of the batch fails while it is classified, summarised or
\* evaluated: inside the component, which cannot read the file, or with an
\* exception that reaches the handler of the loop.
ComponentFailure ==
    \E k \in DOMAIN uploaded :
        \/ uploaded[k].fault \in { "detect", "summary", "red_flags" }
        \/ ~uploaded[k].doc.readable /\ uploaded[k].fault = "none"

\* main has built its report after a loop over all the files, the results of
\* every iteration recorded up to the step that raised.
ReportedAll ==
    /\ pc = "reported"
    /\ report.documents_uploaded = Len(doc_types)
    /\ file_index = Len(uploaded) + 1
    /\ Len(filepaths) = Past({ "save" })
    /\ Len(doc_types) = Past({ "save", "detect" })
    /\ Len(summaries) = Past({ "save", "detect", "summary" })
    /\ n_errors = Len(uploaded) - Past({ "save", "detect", "summary", "red_flags" })

\* A step of main from the loop on leads to the next file, and after the
\* last file to the process detection, the checklist and the report.
GoesOn ==
    /\ (pc = "loop" /\ file_index <= Len(uploaded))
           => (pc' = "loop" /\ file_index' = file_index + 1)
    /\ (pc = "loop" /\ file_index > Len(uploaded) /\ filepaths # << >>)
           => pc' = "summaries"
    /\ pc = "summaries" => pc' = "process_detection"
    /\ pc = "process_detection" => pc' = "checklist"
    /\ pc = "checklist" => pc' = "report"
    /\ pc = "report" => pc' = "reported"
    /\ pc = "reported" => pc' = "reviewed"

\* C20: a failure while classifying, summarising or evaluating one document
\* does not end the batch: main returns before the report only when no file
\* was saved, every iteration of the loop is followed by the next file and
\* the last one by the checklist and the report, and the report of a batch
\* with such a failure holds the results of all its files.
C20_FailureNeverAbortsBatch ==
    /\ [](pc = "returned" => \A k \in DOMAIN uploaded : uploaded[k].fault = "save")
    /\ [][GoesOn]_vars
    /\ []((ComponentFailure /\ pc = "reported") => ReportedAll)

C20_Witness ==
    /\ pc = "reported"
    /\ Len(uploaded) = 2
    /\ uploaded[1].fault = "detect"
    /\ uploaded[2].fault = "none"
    /\ ~uploaded[2].doc.readable
    /\ Len(filepaths) = 2
    /\ Len(doc_types) = 1
    /\ all_issues # << >>
    /\ report.documents_uploaded = 1

\* The loop of main is over and main has not returned.
AfterLoop == pc \in { "summaries", "process_detection", "checklist", "report", "reported", "reviewed" }

\* C24: after the loop filepaths and doc_types have the same length and
\* doc_types[i] is the type detected for the file of filepaths[i], whatever
\* the steps that raised.
C24_PathsAndTypesAligned ==
    AfterLoop =>
        /\ Len(filepaths) = Len(doc_types)
        /\ \A i \in DOMAIN filepaths :
               /\ i \in DOMAIN doc_types
               /\ doc_types[i] = detect_doc_type(uploaded[filepaths[i]].doc, llm_env).detected

\* The issues red_flags returned for the file saved at the path: none when
\* its iteration raised before or in the evaluation.
ProducedFor(path) ==
    IF uploaded[path].fault = "none"
    THEN red_flags(uploaded[path].doc, detect_doc_type(uploaded[path].doc, llm_env).detected,
                   rag_env, llm_env)
    ELSE << >>

\* C21: the issues shown under a document in the section of the summaries,
\* and those written into its reviewed copy, are the issues red_flags
\* returned for that document, also when two documents have the same type.
C21_IssuesOfOwnDocument ==
    /\ \A i \in DOMAIN shown : shown[i].issues = ProducedFor(shown[i].path)
    /\ \A i \in DOMAIN reviewed : reviewed[i].issues = ProducedFor(reviewed[i].path)

(***************************************************************************)
(* Claims about insert_comments.                                           *)
(***************************************************************************)
Commented == pc = "commented" /\ ~annotated.raised

\* The position in the file of its n-th non-blank paragraph (0: none).
NthNonBlank(file, n) ==
    LET hits == { k \in DOMAIN file.paragraphs :
                    /\ file.paragraphs[k] # << >>
                    /\ Cardinality({ j \in 1..k : file.paragraphs[j] # << >> }) = n }
    IN  IF hits = {} THEN 0 ELSE CHOOSE k \in hits : TRUE

\* The positions in the saved document of the paragraphs that hold the
\* comment of the issue.
Holding(issue) ==
    { k \in DOMAIN annotated.paragraphs :
        \E c \in DOMAIN annotated.paragraphs[k].comments :
            annotated.paragraphs[k].comments[c] = CommentOf(issue) }

\* C26: insert_comments appends the comment of an issue of red_flags whose
\* section is "Paragraph N" to the N-th non-blank paragraph of the document,
\* and the comment of an issue with another section to the last paragraph,
\* with blank paragraphs in the document and with a summary inserted or not.
C26_CommentOnItsParagraph ==
    Commented =>
        \A i \in DOMAIN result :
            IF result[i].section.kind = "Paragraph"
            THEN \A k \in Holding(result[i]) :
                     /\ annotated.paragraphs[k].origin # 0
                     /\ annotated.paragraphs[k].origin = NthNonBlank(doc, result[i].section.n)
            ELSE Len(annotated.paragraphs) \in Holding(result[i])
====
